---- MODULE Spec2Model ----
(***************************************************************************)
(* Verification model of the adaptive form-filling engine of               *)
(* resume-optimizer: the action executor, the form-fill loop, the submit   *)
(* gate, the page-analysis validation/repair layer, the proceed decision   *)
(* and the JSON parse-repair of the LLM client.                            *)
(*                                                                         *)
(* Strings the code inspects character by character are tuples of          *)
(* one-character strings; confidences are integers in hundredths          *)
(* (70 = 0.7, 500 = 5.0).                                                  *)
(***************************************************************************)
EXTENDS Integers, Sequences, FiniteSets, TLC

VARIABLES
    \* ---- ActionExecutor.execute_action --------------------------------
    action,        \* the action record handed to execute_action
    result,        \* the result record (None before it is built)
    pc,            \* position of the call
    retry,         \* loop variable of _fill_text
    elemValue,     \* what the element holds when the call returns
    readBack,      \* TRUE when actual_value was read from the element
    \* ---- ProFormFiller.fill_form --------------------------------------
    fpc,           \* position of fill_form
    element_groups,\* per group, the outcomes the page will give the mapper's actions
    all_actions,   \* the mapped actions, as <<group, index in group>>
    groupIdx,      \* next group to analyze
    actIdx,        \* index of the action being executed
    inFlight,      \* actions started and not yet returned
    execLog,       \* the actions started, in start order
    fresult,       \* fill_form's result record
    \* ---- the submit step of the application flows --------------------
    flow,          \* which flow runs: "rippling", "greenhouse_test", "workflow"
    spc,           \* position of the flow
    submit,        \* the flow's submit flag
    hasForm,       \* the page holds a form
    submitButtons, \* the submit selectors (by index) that match on the page
    selIdx,        \* loop index over submit_selectors
    fillOk,        \* the fill reported success
    located,       \* a submit control was located
    ctaHops,       \* clicks on a navigation CTA (Apply) before the form
    submitClicks,  \* clicks on a submit control
    \* ---- GPTService._validate_and_fix_page_analysis -------------------
    apc,           \* position of analyze_page_content
    raw_response,  \* the parsed LLM response handed to the validation layer
    fixed_response,\* what _fix_page_analysis_errors built
    analysis,      \* the analysis analyze_page_content returns
    \* ---- PageAnalyzer.should_proceed_with_action ----------------------
    dpc,           \* position of the decision
    gpt_response,  \* the analysis the page analyzer received
    analysis_result,    \* the PageAnalysisResult analyze_page built
    recommended_action, \* the RecommendedAction get_recommended_action built
    min_confidence,\* the threshold handed to should_proceed_with_action
    proceed,       \* what should_proceed_with_action returned
    \* ---- the JSON parse-repair of GPTService._make_request ------------
    ppc,           \* position of the parse
    intended,      \* the JSON value the reply spells (fences and trailing commas aside)
    content,       \* the reply text
    json_str,      \* the extracted and cleaned text
    parsed,        \* what _make_request returns
    \* ---- ProFormFiller._analyze_element_group -------------------------
    mpc,           \* position of the mapper
    llm,           \* what the LLM call gives for the group
    group,         \* the elements of the group
    personal_data, \* the candidate profile
    mapped,        \* the actions _analyze_element_group returns
    \* ---- DOMSnapshot._group_elements_by_logic -------------------------
    gpc,           \* position of the grouping
    elements,      \* the snapshot's elements: per element its logicalGroup
    max_group_size,\* the cap on a group
    groups,        \* the dict of the first loop, as a list of [name, members]
    grouped,       \* the list of groups returned
    \* ---- FieldLearningSystem ------------------------------------------
    lpc,           \* per session: "new" before its FieldLearningSystem is built
    knowledge_base,\* per session: the field_mappings of its in-memory knowledge base
    kb_file,       \* the field_mappings of the knowledge-base file
    recorded,      \* the examples the sessions recorded so far
    handed,        \* per session: the key of the mapping its last lookup returned
    export_data,   \* the document export_knowledge wrote
    imported,      \* the knowledge base loaded from the exported document
    \* ---- EnhancedDataManager.get_field_value --------------------------
    vpc,           \* position of get_field_value
    field_identifier, \* the identifier asked for
    stored,        \* what the profile holds at the data path of the field
    field_value,   \* what get_field_value returns
    \* ---- a native select: ActionExecutor and SmartFieldHandler --------
    epc,               \* position of ActionExecutor._select_option
    hpc,               \* position of SmartFieldHandler._handle_select_field
    dom_options,       \* the <option> elements of the select, in DOM order
    select_target,     \* the value the field is to take
    select_name,        \* field_info['name'] of the handler
    executor_selected, \* DOM position the executor selected, 0 for none
    handler_selected,  \* DOM position the handler selected, 0 for none
    \* ---- ActionExecutor._click_radio on a yes/no group -----------------
    rpc,            \* position of _click_radio
    radio_group,    \* the radios of the name, in DOM order
    radio_target,   \* str(action['value'])
    radio_i,        \* the radio the loop is at
    radio_checked,  \* the radio of the group that is checked, 0 for none
    radio_clicked,  \* the radios clicked, in order
    radio_result,   \* result: success and actual_value, or the error
    \* ---- ActionExecutor._fill_text, attempt by attempt ----------------
    tpc,           \* position of _fill_text
    text_value,    \* str(action['value'])
    text_retry,    \* the loop variable retry
    text_elem,     \* the value the element holds
    text_result,   \* the result dict
    text_log,      \* what happened so far: attempts' outcomes and waits
    \* ---- SmartFormFiller.analyze_and_match_fields ---------------------
    cpc,            \* position of analyze_and_match_fields
    form_fields,    \* the form's fields, in order
    chunk_start,    \* the loop variable i of _analyze_fields_in_chunks
    sent_batches,   \* the field lists passed to _analyze_fields_batch, in order
    batch_mappings, \* what each call of _analyze_fields_batch returned
    all_mappings,   \* the mapping returned
    \* ---- FieldLearningSystem._generate_field_key over several runs ----
    kpc,          \* position of the key derivation
    field_info,   \* the field: label, placeholder, id, ariaLabel
    field_keys,   \* the key derived in each run of the program so far
    \* ---- ActionExecutor._handle_custom_dropdown, step by step ---------
    ddpc,         \* position of _handle_custom_dropdown
    dd_value,     \* str(action['value'])
    dd_open,      \* the dropdown's list of options is open
    dd_clicked,   \* the trigger was clicked
    dd_escape,    \* Escape was pressed
    dd_result,    \* the result dict
    \* ---- FieldValidator.validate_field over a sequence of fields ------
    vfpc,               \* position of validate_field
    vselector,          \* the selector of the validation in progress
    listeners,          \* per element: the change/blur listener pairs attached
    fieldChanged,       \* window.__fieldChanged
    fieldBlurred,       \* window.__fieldBlurred
    stale_flag_seen,    \* a wait was satisfied by a flag of an earlier validation
    validation_results, \* self.validation_results: is_valid and error of each
    \* ---- ProFormFiller._fallback_analysis on name, email, phone fields -
    fbpc,        \* position of _fallback_analysis
    fb_group,    \* group['elements']
    fb_data,     \* personal_data
    fb_actions,  \* the actions returned
    sem_calls,     \* learn_field_mapping calls made on the instance
    sem_mappings,  \* knowledge_base['field_mappings'] of the instance
    sem_history,   \* knowledge_base['learning_history'] of the instance
    sem_file,      \* the knowledge-base file: its field_mappings and learning_history
    sem_raised     \* whether the last learn_field_mapping call raised

execVars == <<action, result, pc, retry, elemValue, readBack>>
fillVars == <<fpc, element_groups, all_actions, groupIdx, actIdx, inFlight, execLog, fresult>>
submitVars == <<flow, spc, submit, hasForm, submitButtons, selIdx, fillOk, located,
                ctaHops, submitClicks>>
pageVars == <<apc, raw_response, fixed_response, analysis>>
decideVars == <<dpc, gpt_response, analysis_result, recommended_action,
                min_confidence, proceed>>
parseVars == <<ppc, intended, content, json_str, parsed>>
mapVars == <<mpc, llm, group, personal_data, mapped>>
groupVars == <<gpc, elements, max_group_size, groups, grouped>>
learnVars == <<lpc, knowledge_base, kb_file, recorded, handed, export_data, imported>>
dataVars == <<vpc, field_identifier, stored, field_value>>
selectVars == <<epc, hpc, dom_options, select_target, select_name, executor_selected, handler_selected>>
radioVars == <<rpc, radio_group, radio_target, radio_i, radio_checked, radio_clicked, radio_result>>
textVars == <<tpc, text_value, text_retry, text_elem, text_result, text_log>>
chunkVars == <<cpc, form_fields, chunk_start, sent_batches, batch_mappings, all_mappings>>
keyVars == <<kpc, field_info, field_keys>>
ddVars == <<ddpc, dd_value, dd_open, dd_clicked, dd_escape, dd_result>>
valVars == <<vfpc, vselector, listeners, fieldChanged, fieldBlurred, stale_flag_seen, validation_results>>
fbVars == <<fbpc, fb_group, fb_data, fb_actions>>
semVars == <<sem_calls, sem_mappings, sem_history, sem_file, sem_raised>>

vars == <<execVars, fillVars, submitVars, pageVars, decideVars, parseVars, mapVars, groupVars, learnVars, dataVars, selectVars, radioVars, textVars, chunkVars, keyVars, ddVars, valVars, fbVars, semVars>>
notExec == <<fillVars, submitVars, pageVars, decideVars, parseVars, mapVars, groupVars, learnVars, dataVars, selectVars, radioVars, textVars, chunkVars, keyVars, ddVars, valVars, fbVars, semVars>>
notFill == <<execVars, submitVars, pageVars, decideVars, parseVars, mapVars, groupVars, learnVars, dataVars, selectVars, radioVars, textVars, chunkVars, keyVars, ddVars, valVars, fbVars, semVars>>
notSubmit == <<execVars, fillVars, pageVars, decideVars, parseVars, mapVars, groupVars, learnVars, dataVars, selectVars, radioVars, textVars, chunkVars, keyVars, ddVars, valVars, fbVars, semVars>>
notPage == <<execVars, fillVars, submitVars, decideVars, parseVars, mapVars, groupVars, learnVars, dataVars, selectVars, radioVars, textVars, chunkVars, keyVars, ddVars, valVars, fbVars, semVars>>
notDecide == <<execVars, fillVars, submitVars, pageVars, parseVars, mapVars, groupVars, learnVars, dataVars, selectVars, radioVars, textVars, chunkVars, keyVars, ddVars, valVars, fbVars, semVars>>
notParse == <<execVars, fillVars, submitVars, pageVars, decideVars, mapVars, groupVars, learnVars, dataVars, selectVars, radioVars, textVars, chunkVars, keyVars, ddVars, valVars, fbVars, semVars>>
notMap == <<execVars, fillVars, submitVars, pageVars, decideVars, parseVars, groupVars, learnVars, dataVars, selectVars, radioVars, textVars, chunkVars, keyVars, ddVars, valVars, fbVars, semVars>>
notGroup == <<execVars, fillVars, submitVars, pageVars, decideVars, parseVars, mapVars, learnVars, dataVars, selectVars, radioVars, textVars, chunkVars, keyVars, ddVars, valVars, fbVars, semVars>>
notLearn == <<execVars, fillVars, submitVars, pageVars, decideVars, parseVars, mapVars, groupVars, dataVars, selectVars, radioVars, textVars, chunkVars, keyVars, ddVars, valVars, fbVars, semVars>>
notData == <<execVars, fillVars, submitVars, pageVars, decideVars, parseVars, mapVars, groupVars, learnVars, selectVars, radioVars, textVars, chunkVars, keyVars, ddVars, valVars, fbVars, semVars>>
notSelect == <<execVars, fillVars, submitVars, pageVars, decideVars, parseVars, mapVars, groupVars, learnVars, dataVars, radioVars, textVars, chunkVars, keyVars, ddVars, valVars, fbVars, semVars>>
notRadio == <<execVars, fillVars, submitVars, pageVars, decideVars, parseVars, mapVars, groupVars, learnVars, dataVars, selectVars, textVars, chunkVars, keyVars, ddVars, valVars, fbVars, semVars>>
notText == <<execVars, fillVars, submitVars, pageVars, decideVars, parseVars, mapVars, groupVars, learnVars, dataVars, selectVars, radioVars, chunkVars, keyVars, ddVars, valVars, fbVars, semVars>>
notChunk == <<execVars, fillVars, submitVars, pageVars, decideVars, parseVars, mapVars, groupVars, learnVars, dataVars, selectVars, radioVars, textVars, keyVars, ddVars, valVars, fbVars, semVars>>
notKey == <<execVars, fillVars, submitVars, pageVars, decideVars, parseVars, mapVars, groupVars, learnVars, dataVars, selectVars, radioVars, textVars, chunkVars, ddVars, valVars, fbVars, semVars>>
notDd == <<execVars, fillVars, submitVars, pageVars, decideVars, parseVars, mapVars, groupVars, learnVars, dataVars, selectVars, radioVars, textVars, chunkVars, keyVars, valVars, fbVars, semVars>>
notVal == <<execVars, fillVars, submitVars, pageVars, decideVars, parseVars, mapVars, groupVars, learnVars, dataVars, selectVars, radioVars, textVars, chunkVars, keyVars, ddVars, fbVars, semVars>>
notFb == <<execVars, fillVars, submitVars, pageVars, decideVars, parseVars, mapVars, groupVars, learnVars, dataVars, selectVars, radioVars, textVars, chunkVars, keyVars, ddVars, valVars, semVars>>
notSem == <<execVars, fillVars, submitVars, pageVars, decideVars, parseVars, mapVars, groupVars, learnVars, dataVars, selectVars, radioVars, textVars, chunkVars, keyVars, ddVars, valVars, fbVars>>

None == "None"          \* Python's None
Missing == "Missing"    \* a key absent from a dict

-----------------------------------------------------------------------------
(* String helpers: str.lower, str.strip, the `in` operator on strings.      *)

Max(S) == CHOOSE x \in S : \A y \in S : y <= x
Min(S) == CHOOSE x \in S : \A y \in S : x <= y

LowerChar(c) ==
    CASE c = "A" -> "a" [] c = "B" -> "b" [] c = "C" -> "c" [] c = "D" -> "d"
      [] c = "E" -> "e" [] c = "F" -> "f" [] c = "G" -> "g" [] c = "H" -> "h"
      [] c = "I" -> "i" [] c = "J" -> "j" [] c = "K" -> "k" [] c = "L" -> "l"
      [] c = "M" -> "m" [] c = "N" -> "n" [] c = "O" -> "o" [] c = "P" -> "p"
      [] c = "Q" -> "q" [] c = "R" -> "r" [] c = "S" -> "s" [] c = "T" -> "t"
      [] c = "U" -> "u" [] c = "V" -> "v" [] c = "W" -> "w" [] c = "X" -> "x"
      [] c = "Y" -> "y" [] c = "Z" -> "z"
      [] OTHER -> c

Lower(s) == [i \in 1..Len(s) |-> LowerChar(s[i])]

IsSpace(c) == c \in {" ", "\n"}

Strip(s) ==
    LET idx == {i \in 1..Len(s) : ~IsSpace(s[i])}
    IN  IF idx = {} THEN <<>> ELSE SubSeq(s, Min(idx), Max(idx))

\* a in b, for Python strings
Contains(a, b) ==
    \E i \in 1..(Len(b) - Len(a) + 1) : SubSeq(b, i, i + Len(a) - 1) = a

-----------------------------------------------------------------------------
(* difflib.SequenceMatcher(None, a, b).ratio(), as the rational <<n, d>>.   *)

CommonLen(a, b, i, j, ahi, bhi) ==
    Max({k \in 0..Min({ahi - i, bhi - j}) : \A t \in 0..(k - 1) : a[i + t] = b[j + t]})

\* find_longest_match on a[alo..ahi-1], b[blo..bhi-1] (1-based, ahi/bhi exclusive):
\* the longest block, the earliest in a, then the earliest in b
LongestMatch(a, b, alo, ahi, blo, bhi) ==
    LET cands == {<<i, j, CommonLen(a, b, i, j, ahi, bhi)>> :
                        i \in alo..(ahi - 1), j \in blo..(bhi - 1)}
        k == IF cands = {} THEN 0 ELSE Max({c[3] : c \in cands})
    IN  IF k = 0 THEN <<alo, blo, 0>>
        ELSE LET longest == {c \in cands : c[3] = k}
                 i == Min({c[1] : c \in longest})
                 j == Min({c[2] : c \in {d \in longest : d[1] = i}})
             IN  <<i, j, k>>

RECURSIVE Matches(_, _, _, _, _, _)
Matches(a, b, alo, ahi, blo, bhi) ==
    LET m == LongestMatch(a, b, alo, ahi, blo, bhi)
    IN  IF m[3] = 0 THEN 0
        ELSE m[3] + Matches(a, b, alo, m[1], blo, m[2])
                  + Matches(a, b, m[1] + m[3], ahi, m[2] + m[3], bhi)

Ratio(a, b) ==
    IF Len(a) + Len(b) = 0 THEN <<1, 1>>
    ELSE <<2 * Matches(a, b, 1, Len(a) + 1, 1, Len(b) + 1), Len(a) + Len(b)>>

\* p > q on rationals with positive denominators
RatGT(p, q) == p[1] * q[2] > q[1] * p[2]

-----------------------------------------------------------------------------
(* ActionExecutor: the pure helpers.                                        *)

NoneV == <<"None">>     \* None where a string is expected

yes_s == <<"y", "e", "s">>
no_s == <<"n", "o">>
true_s == <<"t", "r", "u", "e">>
false_s == <<"f", "a", "l", "s", "e">>
authorized_s == <<"a", "u", "t", "h", "o", "r", "i", "z", "e", "d">>
not_authorized_s == <<"n", "o", "t", " ">> \o authorized_s
male_s == <<"m", "a", "l", "e">>
female_s == <<"f", "e">> \o male_s
man_s == <<"m", "a", "n">>
woman_s == <<"w", "o">> \o man_s
on_s == <<"o", "n">>
checked_s == <<"c", "h", "e", "c", "k", "e", "d">>

\* _fuzzy_match_option: the index of the option returned, 0 for None.
\* k walks the options' value and text fields in the order the loops visit them.
RECURSIVE FuzzyScan(_, _, _, _, _)
FuzzyScan(target_lower, options, k, best_match, best_score) ==
    IF k > 2 * Len(options)
    THEN IF RatGT(best_score, <<6, 10>>) THEN best_match ELSE 0
    ELSE LET o == (k + 1) \div 2
             option_text == Strip(Lower(IF k % 2 = 1 THEN options[o].value
                                                     ELSE options[o].text))
         IN  IF option_text = target_lower THEN o
             ELSE LET score == IF Contains(target_lower, option_text)
                                    \/ Contains(option_text, target_lower)
                               THEN <<8, 10>>
                               ELSE Ratio(target_lower, option_text)
                  IN  IF RatGT(score, best_score)
                      THEN FuzzyScan(target_lower, options, k + 1, o, score)
                      ELSE FuzzyScan(target_lower, options, k + 1, best_match, best_score)

_fuzzy_match_option(target, options) ==
    FuzzyScan(Strip(Lower(target)), options, 1, 0, <<0, 1>>)

\* _fuzzy_match_text: the index of the text returned, 0 for None
RECURSIVE FuzzyTextScan(_, _, _, _, _)
FuzzyTextScan(target_lower, texts, k, best_match, best_score) ==
    IF k > Len(texts)
    THEN IF RatGT(best_score, <<6, 10>>) THEN best_match ELSE 0
    ELSE LET text_lower == Strip(Lower(texts[k]))
         IN  IF text_lower = target_lower THEN k
             ELSE LET score == Ratio(target_lower, text_lower)
                  IN  IF RatGT(score, best_score)
                      THEN FuzzyTextScan(target_lower, texts, k + 1, k, score)
                      ELSE FuzzyTextScan(target_lower, texts, k + 1, best_match, best_score)

_fuzzy_match_text(target, texts) ==
    FuzzyTextScan(Strip(Lower(target)), texts, 1, 0, <<0, 1>>)

RadioMappings ==
    { {yes_s, <<"y">>, true_s, <<"1">>, authorized_s},
      {no_s, <<"n">>, false_s, <<"0">>, not_authorized_s},
      {male_s, <<"m">>, man_s},
      {female_s, <<"f">>, woman_s} }

_match_radio_value(target, value, label) ==
    LET target_lower == Strip(Lower(target))
        value_lower == Strip(Lower(value))
        label_lower == Strip(Lower(label))
    IN  \/ target_lower = value_lower
        \/ target_lower = label_lower
        \/ \E values \in RadioMappings :
              /\ target_lower \in values
              /\ \/ value_lower \in values
                 \/ \E v \in values : Contains(v, label_lower)
        \/ Contains(target_lower, label_lower)
        \/ Contains(label_lower, target_lower)

_parse_boolean_value(value) ==
    Strip(Lower(value)) \in {yes_s, true_s, <<"1">>, on_s, checked_s}

-----------------------------------------------------------------------------
(* ActionExecutor.execute_action and the per-control handlers.              *)

max_retries == 3

Opt(v, t, i) == [value |-> v, text |-> t, index |-> i]

\* the strings of the executor's inputs and of the page
us_s == <<"u", "s">>
US_s == <<"U", "S">>
usa_s == <<"U", "S", "A">>
can_s == <<"C", "a", "n">>
Yes_s == <<"Y", "e", "s">>
ValueInputs == {<<>>, us_s, US_s, Yes_s, no_s, <<"u", "s", " ">>, <<"d", "/", "c", "a">>}
ReadValues == {<<>>, us_s, US_s, Yes_s}
ControlInputs ==
    {"text", "email", "tel", "url", "number", "select", "radio", "checkbox", "file",
     "date", "datetime-local", "textarea", "custom-dropdown", "Text", "bogus"}
\* str.lower on the control kinds above
ControlLower(c) == IF c = "Text" THEN "text" ELSE c

OptionLists ==
    { <<>>,
      <<Opt(<<>>, <<>>, 0), Opt(us_s, usa_s, 1), Opt(<<"c", "a">>, can_s, 2)>>,
      <<Opt(<<"c", "a">>, can_s, 0), Opt(us_s, usa_s, 1)>>,
      <<Opt(<<"1">>, Yes_s, 0), Opt(<<"0">>, <<"N", "o">>, 1)>> }
TextLists == { <<>>, <<usa_s, can_s>>, <<US_s>>, <<Yes_s, <<"N", "o">>>> }
Radio(v, l) == [value |-> v, label |-> l]
RadioGroups ==
    { <<>>,
      <<Radio(yes_s, <<"Y", "e", "s">>), Radio(no_s, <<"N", "o">>)>>,
      <<Radio(<<>>, <<>>), Radio(<<"1">>, Yes_s)>>,
      <<Radio(<<"0">>, <<"N", "o">>), Radio(<<"1">>, <<>>)>> }

ActionInputs ==
    [keys : SUBSET {"selector", "control", "value"},
     selector : {"#f"}, control : ControlInputs, value : ValueInputs]

EmptyResult ==
    [success |-> FALSE, selector |-> None, control |-> None, expected_value |-> NoneV,
     actual_value |-> NoneV, error |-> None, retries |-> 0]

\* the result dict built at the top of execute_action
InitialResult(a) ==
    [success |-> FALSE, selector |-> a.selector, control |-> a.control,
     expected_value |-> a.value, actual_value |-> NoneV, error |-> None, retries |-> 0]

\* the handler execute_action dispatches to, by control_type
Dispatch(control_type) ==
    CASE control_type \in {"text", "email", "tel", "url", "number"} -> "_fill_text"
      [] control_type = "select" -> "_select_option"
      [] control_type = "radio" -> "_click_radio"
      [] control_type = "checkbox" -> "_click_checkbox"
      [] control_type = "file" -> "_upload_file"
      [] control_type \in {"date", "datetime-local"} -> "_fill_date"
      [] control_type = "textarea" -> "_fill_text"
      [] control_type = "custom-dropdown" -> "_handle_custom_dropdown"
      [] OTHER -> "unknown"

\* building the result reads action['selector'], ['control'], ['value'] before the try
ResultBuildRaises(a) == a.keys # {"selector", "control", "value"}

ExecuteAction ==
    /\ pc = "call"
    /\ IF ResultBuildRaises(action)
       THEN /\ pc' = "raised"
            /\ UNCHANGED result
       ELSE LET h == Dispatch(ControlLower(action.control))
            IN  IF h = "unknown"
                THEN /\ result' = [InitialResult(action) EXCEPT !.error = "unknown control"]
                     /\ pc' = "done"
                ELSE /\ result' = InitialResult(action)
                     /\ pc' = h
    /\ UNCHANGED <<action, retry, elemValue, readBack, notExec>>

\* one pass of the retry loop of _fill_text; the return after the loop is taken
\* with the last failed pass
AfterFailedAttempt == IF retry + 1 < max_retries THEN "_fill_text" ELSE "done"

FillTextAttempt ==
    /\ pc = "_fill_text"
    /\ retry < max_retries
    /\ \/ \* a page call raised, or the element is a hidden input: _fill_hidden_field
          \* is not a method of the class, the call raises AttributeError
          \E waitRaises \in BOOLEAN :
             /\ result' = [result EXCEPT !.error = "exception"]
             /\ IF waitRaises
                THEN \* wait_for_timeout in the handler raises: caught by execute_action
                     /\ pc' = "done"
                     /\ retry' = retry
                ELSE /\ pc' = AfterFailedAttempt
                     /\ retry' = retry + 1
             /\ UNCHANGED <<elemValue, readBack>>
       \/ \* a visible element: fill, blur, Tab, wait, read back
          \E actual_value \in ReadValues :
             /\ elemValue' = actual_value
             /\ IF actual_value = action.value
                THEN /\ result' = [result EXCEPT !.success = TRUE,
                                                !.actual_value = actual_value]
                     /\ pc' = "done"
                     /\ retry' = retry
                     /\ readBack' = TRUE
                ELSE /\ result' = [result EXCEPT !.retries = retry + 1]
                     /\ pc' = AfterFailedAttempt
                     /\ retry' = retry + 1
                     /\ UNCHANGED readBack
    /\ UNCHANGED <<action, notExec>>

SelectOption ==
    /\ pc = "_select_option"
    /\ \/ \* wait_for_selector, evaluate or all three select_option calls raised
          /\ result' = [result EXCEPT !.error = "exception"]
          /\ pc' = "done"
          /\ UNCHANGED <<action, elemValue, readBack>>
       \/ \* a native select
          \E options \in OptionLists :
             LET best_match == _fuzzy_match_option(action.value, options)
             IN  IF best_match # 0
                 THEN /\ elemValue' = options[best_match].text
                      /\ result' = [result EXCEPT !.success = TRUE,
                                        !.actual_value = options[best_match].text]
                      /\ readBack' = TRUE
                      /\ pc' = "done"
                      /\ UNCHANGED action
                 ELSE /\ result' = [result EXCEPT !.error = "no matching option"]
                      /\ pc' = "done"
                      /\ UNCHANGED <<action, elemValue, readBack>>
       \/ \* not a select tag: handled as a custom dropdown
          /\ action' = [action EXCEPT !.control = "custom-dropdown"]
          /\ pc' = "_handle_custom_dropdown"
          /\ UNCHANGED <<result, elemValue, readBack>>
    /\ UNCHANGED <<retry, notExec>>

HandleCustomDropdown ==
    /\ pc = "_handle_custom_dropdown"
    /\ \/ \* the trigger is not found, or a click or the read-back raised
          /\ result' = [result EXCEPT !.error = "exception"]
          /\ UNCHANGED <<elemValue, readBack>>
       \/ \* an option selector matched and was clicked, or the fuzzy match of the
          \* visible options found one: the trigger's text is read back
          \E found \in BOOLEAN, all_options \in TextLists, actual_value \in ReadValues :
             LET best_match == _fuzzy_match_text(action.value, all_options)
                 option_found == found \/ best_match # 0
             IN  IF option_found
                 THEN /\ elemValue' = actual_value
                      /\ readBack' = TRUE
                      /\ result' = [result EXCEPT !.success = TRUE,
                                        !.actual_value = Strip(actual_value)]
                 ELSE /\ result' = [result EXCEPT !.error = "no matching option"]
                      /\ UNCHANGED <<elemValue, readBack>>
    /\ pc' = "done"
    /\ UNCHANGED <<action, retry, notExec>>

\* the loop of _click_radio from radio i on; checked[i] is what is_checked answers
\* after radio i was clicked. The index of the radio it returns on, 0 for none.
RECURSIVE RadioLoop(_, _, _, _)
RadioLoop(target_value, radios, checked, i) ==
    IF i > Len(radios) THEN 0
    ELSE IF /\ _match_radio_value(target_value, radios[i].value, radios[i].label)
            /\ checked[i]
         THEN i
         ELSE RadioLoop(target_value, radios, checked, i + 1)

ClickRadio ==
    /\ pc = "_click_radio"
    /\ \/ \* no element, no name attribute, or a page call raised
          /\ result' = [result EXCEPT !.error = "exception"]
          /\ UNCHANGED <<elemValue, readBack>>
       \/ \E radios \in RadioGroups :
          \E checked \in [1..Len(radios) -> BOOLEAN] :
             LET r == RadioLoop(action.value, radios, checked, 1)
             IN  IF r # 0
                 THEN /\ result' = [result EXCEPT !.success = TRUE,
                               !.actual_value = IF radios[r].value # <<>>
                                                THEN radios[r].value ELSE radios[r].label]
                      /\ elemValue' = radios[r].value
                      /\ readBack' = TRUE
                 ELSE /\ result' = [result EXCEPT !.error = "no matching radio"]
                      /\ UNCHANGED <<elemValue, readBack>>
    /\ pc' = "done"
    /\ UNCHANGED <<action, retry, notExec>>

BoolStr(b) == IF b THEN <<"True">> ELSE <<"False">>

ClickCheckbox ==
    /\ pc = "_click_checkbox"
    /\ \/ /\ result' = [result EXCEPT !.error = "exception"]
          /\ UNCHANGED <<elemValue, readBack>>
       \/ \E final_state \in BOOLEAN :
             LET should_check == _parse_boolean_value(action.value)
             IN  /\ elemValue' = BoolStr(final_state)
                 /\ readBack' = TRUE
                 /\ IF final_state = should_check
                    THEN result' = [result EXCEPT !.success = TRUE,
                                        !.actual_value = BoolStr(final_state)]
                    ELSE result' = [result EXCEPT !.error = "wrong checkbox state"]
    /\ pc' = "done"
    /\ UNCHANGED <<action, retry, notExec>>

\* file_path.split('/')[-1]
LastSegment(file_path) ==
    LET slashes == {i \in 1..Len(file_path) : file_path[i] = "/"}
    IN  IF slashes = {} THEN file_path
        ELSE SubSeq(file_path, Max(slashes) + 1, Len(file_path))

UploadFile ==
    /\ pc = "_upload_file"
    /\ \/ \* no file input found, or set_input_files raised
          result' = [result EXCEPT !.error = "exception"]
       \/ \* the file is set; the file name is reported
          result' = [result EXCEPT !.success = TRUE,
                                   !.actual_value = LastSegment(action.value)]
    /\ pc' = "done"
    /\ UNCHANGED <<action, retry, elemValue, readBack, notExec>>

FillDate ==
    /\ pc = "_fill_date"
    /\ \/ /\ result' = [result EXCEPT !.error = "exception"]
          /\ UNCHANGED <<elemValue, readBack>>
       \/ \E actual_value \in ReadValues :
             /\ elemValue' = actual_value
             /\ readBack' = TRUE
             /\ IF actual_value # <<>>
                THEN result' = [result EXCEPT !.success = TRUE,
                                    !.actual_value = actual_value]
                ELSE result' = [result EXCEPT !.error = "date fill failed"]
    /\ pc' = "done"
    /\ UNCHANGED <<action, retry, notExec>>

execIdle ==
    /\ action = [keys |-> {}, selector |-> "#f", control |-> "text", value |-> <<>>]
    /\ result = EmptyResult
    /\ pc = "idle"
    /\ retry = 0
    /\ elemValue = NoneV
    /\ readBack = FALSE

-----------------------------------------------------------------------------
(* ProFormFiller.fill_form: snapshot, map every group, execute every action. *)

MaxGroups == 2          \* element groups of a snapshot
MaxGroupActions == 5    \* actions the mapper returns for one group

EmptyFillResult ==
    [success |-> FALSE, errors |-> 0, total_fields |-> 0, filled_fields |-> 0,
     failed_fields |-> 0]

\* a mapper result put in front of the list instead of behind it
ExtendActionsPrepend(all, g, n) == [j \in 1..n |-> <<g, j>>] \o all

\* all_actions.extend(actions), the actions of group g named <<g, 1>>, <<g, 2>>, ...
ExtendActions(all, g, n) == all \o [j \in 1..n |-> <<g, j>>]

\* a strict comparison with the threshold
SuccessRateStrict(filled_fields, total_fields) == 10 * filled_fields > 7 * total_fields

\* success_rate >= 0.7 with success_rate = filled_fields / total_fields
SuccessRateOk(filled_fields, total_fields) == 10 * filled_fields >= 7 * total_fields

\* generate_snapshot returned; an empty list of groups ends the call with an error
Snapshot ==
    /\ fpc = "snapshot"
    /\ IF element_groups = 0
       THEN /\ fresult' = [fresult EXCEPT !.errors = @ + 1]
            /\ fpc' = "done"
       ELSE /\ fpc' = "map"
            /\ UNCHANGED fresult
    /\ UNCHANGED <<element_groups, all_actions, groupIdx, actIdx, inFlight, execLog, notFill>>

\* one pass of `for group in element_groups`: the mapper returns n valid actions
AnalyzeGroup ==
    /\ fpc = "map"
    /\ groupIdx <= element_groups
    /\ \E n \in 0..MaxGroupActions :
          all_actions' = ExtendActions(all_actions, groupIdx, n)
    /\ groupIdx' = groupIdx + 1
    /\ UNCHANGED <<fpc, element_groups, actIdx, inFlight, execLog, fresult, notFill>>

\* the candidate profile is unusable: _analyze_element_group raises before its try,
\* for the first group already; fill_form's handler records the error
AnalyzeRaises ==
    /\ fpc = "map"
    /\ groupIdx = 1
    /\ fresult' = [fresult EXCEPT !.errors = @ + 1]
    /\ fpc' = "done"
    /\ UNCHANGED <<element_groups, all_actions, groupIdx, actIdx, inFlight, execLog, notFill>>

MappingDone ==
    /\ fpc = "map"
    /\ groupIdx > element_groups
    /\ fresult' = [fresult EXCEPT !.total_fields = Len(all_actions)]
    /\ fpc' = "exec"
    /\ UNCHANGED <<element_groups, all_actions, groupIdx, actIdx, inFlight, execLog, notFill>>

\* `for action in all_actions`: execute_action(action) is called
StartAction ==
    /\ fpc = "exec"
    /\ actIdx <= Len(all_actions)
    /\ inFlight' = inFlight + 1
    /\ execLog' = Append(execLog, all_actions[actIdx])
    /\ fpc' = "await"
    /\ UNCHANGED <<element_groups, all_actions, groupIdx, actIdx, fresult, notFill>>

\* the loop variable after the action at index i returned
NextActionIndex(i, success) == i + 1

\* the awaited execute_action returns its result
ReturnAction ==
    /\ fpc = "await"
    /\ \E success \in BOOLEAN :
          /\ fresult' = IF success
                        THEN [fresult EXCEPT !.filled_fields = @ + 1]
                        ELSE [fresult EXCEPT !.failed_fields = @ + 1, !.errors = @ + 1]
          /\ actIdx' = NextActionIndex(actIdx, success)
    /\ inFlight' = inFlight - 1
    /\ fpc' = "exec"
    /\ UNCHANGED <<element_groups, all_actions, groupIdx, execLog, notFill>>

\* after the loop: the success rate
Finish ==
    /\ fpc = "exec"
    /\ actIdx > Len(all_actions)
    /\ fresult' = IF fresult.total_fields > 0
                  THEN [fresult EXCEPT !.success =
                            SuccessRateOk(fresult.filled_fields, fresult.total_fields)]
                  ELSE fresult
    /\ fpc' = "returned"
    /\ UNCHANGED <<element_groups, all_actions, groupIdx, actIdx, inFlight, execLog, notFill>>

fillIdle ==
    /\ fpc = "idle"
    /\ element_groups = 0
    /\ all_actions = <<>>
    /\ groupIdx = 1
    /\ actIdx = 1
    /\ inFlight = 0
    /\ execLog = <<>>
    /\ fresult = EmptyFillResult

-----------------------------------------------------------------------------
(* The submit step: RipplingJobFiller.run/submit_form, the Greenhouse test  *)
(* flow, and the orchestrator's gate on its submit flag.                    *)

MaxHops == 2    \* navigation CTA clicks before a page is analyzed for the last time

\* submit_selectors of submit_form, by position
NumSubmitSelectors == 5

\* submit_form clicking the button it located
SubmitFormClicksAlways == TRUE

\* what submit_form does with the button it located: it logs and returns True
SubmitFormClicks == FALSE

\* `submit_form = False` of the Greenhouse test
greenhouse_submit_form == FALSE

\* the Greenhouse test's click on the located button is commented out
GreenhouseClicks == FALSE

\* analyze_page: a page without a form is searched for an Apply CTA, which is
\* clicked and the new page analyzed again
RipplingAnalyze ==
    /\ flow = "rippling"
    /\ spc = "analyze"
    /\ IF hasForm
       THEN /\ spc' = "check"
            /\ UNCHANGED <<hasForm, ctaHops>>
       ELSE \/ /\ ctaHops < MaxHops
               /\ ctaHops' = ctaHops + 1
               /\ hasForm' \in BOOLEAN
               /\ UNCHANGED spc
            \/ /\ spc' = "check"
               /\ UNCHANGED <<hasForm, ctaHops>>
    /\ UNCHANGED <<flow, submit, submitButtons, selIdx, fillOk, located, submitClicks,
                   notSubmit>>

\* run: with a form on the page, fill it and take the screenshot
RipplingFill ==
    /\ flow = "rippling"
    /\ spc = "check"
    /\ IF hasForm
       THEN /\ fillOk' \in BOOLEAN
            /\ spc' = "submit_form"
       ELSE /\ spc' = "done"
            /\ UNCHANGED fillOk
    /\ UNCHANGED <<flow, submit, hasForm, submitButtons, selIdx, located, ctaHops,
                   submitClicks, notSubmit>>

\* one pass of `for selector in submit_selectors` of submit_form
RipplingSubmitForm ==
    /\ flow = "rippling"
    /\ spc = "submit_form"
    /\ IF selIdx \in submitButtons
       THEN /\ located' = TRUE
            /\ submitClicks' = IF SubmitFormClicks THEN submitClicks + 1 ELSE submitClicks
            /\ spc' = "done"
            /\ UNCHANGED selIdx
       ELSE /\ selIdx' = selIdx + 1
            /\ spc' = IF selIdx = NumSubmitSelectors THEN "done" ELSE "submit_form"
            /\ UNCHANGED <<located, submitClicks>>
    /\ UNCHANGED <<flow, submit, hasForm, submitButtons, fillOk, ctaHops, notSubmit>>

GreenhouseFill ==
    /\ flow = "greenhouse_test"
    /\ spc = "fill"
    /\ fillOk' \in BOOLEAN
    /\ spc' = "submit"
    /\ UNCHANGED <<flow, submit, hasForm, submitButtons, selIdx, located, ctaHops,
                   submitClicks, notSubmit>>

\* `if submit_form and result['success']`: look for button[type="submit"] (selector 1)
GreenhouseSubmit ==
    /\ flow = "greenhouse_test"
    /\ spc = "submit"
    /\ IF greenhouse_submit_form /\ fillOk /\ 1 \in submitButtons
       THEN /\ located' = TRUE
            /\ submitClicks' = IF GreenhouseClicks THEN submitClicks + 1 ELSE submitClicks
       ELSE UNCHANGED <<located, submitClicks>>
    /\ spc' = "done"
    /\ UNCHANGED <<flow, submit, hasForm, submitButtons, selIdx, fillOk, ctaHops, notSubmit>>

WorkflowFill ==
    /\ flow = "workflow"
    /\ spc = "fill"
    /\ fillOk' \in BOOLEAN
    /\ spc' = "submit"
    /\ UNCHANGED <<flow, submit, hasForm, submitButtons, selIdx, located, ctaHops,
                   submitClicks, notSubmit>>

\* the orchestrator submits only when its submit flag is set
WorkflowSubmitGate(flag) == flag

WorkflowSubmit ==
    /\ flow = "workflow"
    /\ spc = "submit"
    /\ IF WorkflowSubmitGate(submit) /\ submitButtons # {}
       THEN /\ located' = TRUE
            /\ submitClicks' = submitClicks + 1
       ELSE UNCHANGED <<located, submitClicks>>
    /\ spc' = "done"
    /\ UNCHANGED <<flow, submit, hasForm, submitButtons, selIdx, fillOk, ctaHops, notSubmit>>

submitIdle ==
    /\ flow = "none"
    /\ spc = "idle"
    /\ submit = FALSE
    /\ hasForm = FALSE
    /\ submitButtons = {}
    /\ selIdx = 1
    /\ fillOk = FALSE
    /\ located = FALSE
    /\ ctaHops = 0
    /\ submitClicks = 0

-----------------------------------------------------------------------------
(* GPTService.analyze_page_content: the pydantic validation of the parsed   *)
(* LLM response, the repair of a response that fails it, the re-validation  *)
(* and the default response.  A number of the response is [t, n]: t says    *)
(* what JSON gave ("int" a number, "str" a string, "missing" no such key),  *)
(* n is the number (for "str" the number the text spells, -1 for none).     *)

MaxCta == 1    \* CTA candidates in a raw response

Num(t, n) == [t |-> t, n |-> n]

PageTypes == {"job_detail", "job_detail_with_form", "form_page", "login_page",
              "external_redirect", "unknown"}
ActionTypes == {"fill_form", "click_cta", "login_required", "wait_for_human",
                "no_action"}

\* Python truthiness of a string-or-None value
Truthy(v) == v # NoneV /\ v # <<>>

\* CTACandidateSchema.validate_selector: blank or holding a forbidden character
forbidden_chars == {"{", "}", ";", ":", "(", ")"}
validate_selector(v) ==
    /\ Strip(v) # <<>>
    /\ \A i \in 1..Len(v) : v[i] \notin forbidden_chars

\* Field(ge=0.0, le=1.0) of a confidence
ConfidenceInRange(n) == 0 <= n /\ n <= 100

\* CTACandidateSchema on one list item; text, element_type and priority_score
\* are valid in every input
CTACandidateSchema(cta) ==
    /\ cta.is_dict
    /\ ConfidenceInRange(cta.confidence)
    /\ validate_selector(cta.selector)

\* RecommendedActionSchema.validate_action_consistency (mode='before'): it works
\* on the raw dict and changes it in place
validate_action_consistency(values) ==
    IF values.action_type = "click_cta" /\ ~Truthy(values.target_element)
    THEN [err |-> TRUE, values |-> values]
    ELSE [err |-> FALSE,
          values |-> IF values.action_type # "click_cta" /\ Truthy(values.target_element)
                     THEN [values EXCEPT !.target_element = NoneV]
                     ELSE values]

\* RecommendedActionSchema.validate_target_element
validate_target_element(v) ==
    IF v # NoneV /\ Strip(v) = <<>> THEN NoneV
    ELSE IF Truthy(v) THEN Strip(v) ELSE NoneV

\* the field validation of RecommendedActionSchema, after the before-validator
RecommendedActionFields(values) ==
    /\ values.action_type \in ActionTypes
    /\ values.confidence.t = "int"
    /\ ConfidenceInRange(values.confidence.n)

\* form_count == 0 and form_count > 0 as the before-validator evaluates them on the
\* raw value; values.get('form_count', 0) gives 0 for a missing key, and a string
\* is not equal to 0
FormCountIsZero(form_count) ==
    form_count.t = "missing" \/ (form_count.t = "int" /\ form_count.n = 0)
FormCountPositive(form_count) == form_count.t = "int" /\ form_count.n > 0

CtaTruthy(cta_candidates) ==
    \/ cta_candidates.t = "str"
    \/ cta_candidates.t = "list" /\ Len(cta_candidates.items) > 0

PageTypeFormCountDropped(page_type, form_count) == FALSE

\* validate_page_consistency, lines 166-170
PageTypeFormCountError(page_type, form_count) ==
    \/ page_type = "job_detail_with_form" /\ FormCountIsZero(form_count)
    \/ page_type = "form_page" /\ FormCountIsZero(form_count)

\* PageAnalysisSchema.validate_page_consistency (mode='before'): "ok", or the
\* exception it raises
validate_page_consistency(values) ==
    LET page_type == values.page_type
        form_count == values.form_count
        cta_candidates == values.cta_candidates
        ra == values.recommended_action
    IN  IF PageTypeFormCountError(page_type, form_count) THEN "ValueError"
        ELSE IF values.has_apply_button /\ ~CtaTruthy(cta_candidates) THEN "ValueError"
        ELSE IF ra.t = "missing" THEN "ok"
        ELSE IF ra.t # "dict" THEN "AttributeError"
        ELSE IF form_count.t = "str" THEN "TypeError"
        ELSE IF /\ FormCountPositive(form_count)
                /\ page_type \in {"job_detail_with_form", "form_page"}
                /\ ra.action_type \notin {"fill_form", "wait_for_human"}
             THEN "ValueError"
        ELSE IF /\ FormCountIsZero(form_count)
                /\ CtaTruthy(cta_candidates)
                /\ page_type = "job_detail"
                /\ ra.action_type \notin {"click_cta", "wait_for_human"}
             THEN "ValueError"
        ELSE "ok"

NoAnalysis ==
    [page_type |-> None, confidence |-> 0, form_count |-> 0,
     has_apply_button |-> FALSE, cta_candidates |-> <<>>,
     recommended_action |-> [action_type |-> None, confidence |-> 0,
                             target_element |-> NoneV]]

\* model_dump() of a validated response: the coerced field values
model_dump(values) ==
    [page_type |-> values.page_type,
     confidence |-> values.confidence.n,
     form_count |-> values.form_count.n,
     has_apply_button |-> values.has_apply_button,
     cta_candidates |-> [i \in 1..Len(values.cta_candidates.items) |->
                            [confidence |-> values.cta_candidates.items[i].confidence,
                             selector |-> Strip(values.cta_candidates.items[i].selector)]],
     recommended_action |->
        [action_type |-> values.recommended_action.action_type,
         confidence |-> values.recommended_action.confidence.n,
         target_element |->
            validate_target_element(values.recommended_action.target_element)]]

\* PageAnalysisSchema(**values): the before-validator, then every field; outcome
\* "ok" with the dump, "ValidationError", or "raise" for an exception pydantic
\* does not wrap.  values is the response as the call leaves it.
PageAnalysisSchema(values) ==
    LET c == validate_page_consistency(values)
        ra == values.recommended_action
        before == IF ra.t = "dict" THEN validate_action_consistency(ra)
                  ELSE [err |-> TRUE, values |-> ra]
        values2 == [values EXCEPT !.recommended_action = before.values]
        fields_ok ==
            /\ values.page_type \in PageTypes
            /\ values.confidence.t = "int" /\ ConfidenceInRange(values.confidence.n)
            /\ values.form_count.t \in {"int", "str"} /\ values.form_count.n >= 0
            /\ values.cta_candidates.t \in {"list", "missing"}
            /\ \A i \in 1..Len(values.cta_candidates.items) :
                  CTACandidateSchema(values.cta_candidates.items[i])
            /\ ra.t = "dict"
            /\ ~before.err
            /\ RecommendedActionFields(before.values)
    IN  IF c \in {"TypeError", "AttributeError"}
        THEN [outcome |-> "raise", values |-> values, dump |-> NoAnalysis]
        ELSE IF c = "ValueError"
        THEN [outcome |-> "ValidationError", values |-> values, dump |-> NoAnalysis]
        ELSE IF fields_ok
        THEN [outcome |-> "ok", values |-> values2, dump |-> model_dump(values2)]
        ELSE [outcome |-> "ValidationError", values |-> values2, dump |-> NoAnalysis]

unknown_selector == <<".", "u", "n", "k", "n", "o", "w", "n">>

\* GPTService._fix_cta_candidate on a dict item whose confidence is a number
_fix_cta_candidate(cta) ==
    [is_dict |-> TRUE,
     confidence |-> IF ~ConfidenceInRange(cta.confidence)
                    THEN IF cta.confidence >= 100 /\ cta.confidence <= 1000
                         THEN cta.confidence \div 10
                         ELSE 0
                    ELSE cta.confidence,
     selector |-> IF Strip(cta.selector) = <<>> THEN unknown_selector
                  ELSE Strip(cta.selector)]

\* the list comprehension of _fix_page_analysis_errors over the candidates: the
\* dict items, fixed, in order
RECURSIVE FixCtaCandidates(_)
FixCtaCandidates(items) ==
    IF items = <<>> THEN <<>>
    ELSE IF Head(items).is_dict
         THEN <<_fix_cta_candidate(Head(items))>> \o FixCtaCandidates(Tail(items))
         ELSE FixCtaCandidates(Tail(items))

DefaultAction(t) ==
    [t |-> t, action_type |-> "wait_for_human", confidence |-> Num("int", 0),
     target_element |-> NoneV]

\* GPTService._fix_recommended_action: float() of a non-numeric confidence raises
_fix_recommended_action(a) ==
    IF a.confidence.t = "str"
    THEN [raises |-> TRUE, value |-> a]
    ELSE [raises |-> FALSE,
          value |->
            [t |-> "dict",
             action_type |-> IF a.action_type \notin ActionTypes
                             THEN "wait_for_human" ELSE a.action_type,
             confidence |-> IF a.confidence.t = "missing"
                               \/ ~ConfidenceInRange(a.confidence.n)
                            THEN Num("int", 0) ELSE a.confidence,
             target_element |-> IF a.target_element # NoneV
                                THEN IF Strip(a.target_element) = <<>> THEN NoneV
                                     ELSE Strip(a.target_element)
                                ELSE NoneV]]

\* GPTService._fix_page_analysis_errors
_fix_page_analysis_errors(response) ==
    LET ra == response.recommended_action
        fixed_action == IF ra.t = "dict" THEN _fix_recommended_action(ra)
                        ELSE [raises |-> FALSE, value |-> DefaultAction("dict")]
        cta == response.cta_candidates
    IN  [raises |-> fixed_action.raises,
         value |->
           [page_type |-> IF response.page_type \notin PageTypes
                          THEN "unknown" ELSE response.page_type,
            confidence |-> IF response.confidence.t # "int"
                              \/ ~ConfidenceInRange(response.confidence.n)
                           THEN Num("int", 0) ELSE response.confidence,
            form_count |-> IF response.form_count.t # "int" \/ response.form_count.n < 0
                           THEN Num("int", 0) ELSE response.form_count,
            has_apply_button |-> response.has_apply_button,
            cta_candidates |-> [t |-> "list",
                                items |-> IF cta.t = "list"
                                          THEN SubSeq(FixCtaCandidates(cta.items), 1,
                                                      Min({10, Len(FixCtaCandidates(cta.items))}))
                                          ELSE <<>>],
            recommended_action |-> fixed_action.value]]

\* GPTService._get_default_error_response
_get_default_error_response ==
    [page_type |-> "unknown", confidence |-> Num("int", 0),
     form_count |-> Num("int", 0), has_apply_button |-> FALSE,
     cta_candidates |-> [t |-> "list", items |-> <<>>],
     recommended_action |-> DefaultAction("dict")]

\* ---- the raw responses ---------------------------------------------------
apply_sel == <<"#", "a">>
pseudo_sel == <<"a", ":", "b">>

CtaItems ==
    {[is_dict |-> TRUE, confidence |-> c, selector |-> apply_sel] : c \in {70, 500, 2000}}
    \cup {[is_dict |-> TRUE, confidence |-> 70, selector |-> pseudo_sel],
          [is_dict |-> FALSE, confidence |-> 0, selector |-> <<>>]}
CtaInputs ==
    {[t |-> "list", items |-> l] : l \in UNION {[1..k -> CtaItems] : k \in 0..MaxCta}}
    \cup {[t |-> "str", items |-> <<>>], [t |-> "missing", items |-> <<>>]}
TargetInputs == {NoneV, <<" ">>, apply_sel}
RecInputs ==
    {[t |-> "dict", action_type |-> a, confidence |-> Num("int", c), target_element |-> e] :
        a \in ActionTypes \cup {"bogus"}, c \in {70, 500}, e \in TargetInputs}
    \cup {[t |-> "dict", action_type |-> "wait_for_human",
           confidence |-> Num("str", -1), target_element |-> NoneV],
          DefaultAction("str"), DefaultAction("missing")}
FormCountInputs ==
    {Num("int", 0), Num("int", 2), Num("int", -1), Num("str", 0), Num("missing", 0)}
RawResponses ==
    [page_type : PageTypes \cup {"bogus", Missing},
     confidence : {Num("int", 70), Num("int", 500), Num("missing", 0)},
     form_count : FormCountInputs,
     has_apply_button : BOOLEAN,
     cta_candidates : CtaInputs,
     recommended_action : RecInputs]
    \cup {_get_default_error_response}

\* ---- _validate_and_fix_page_analysis -------------------------------------
ValidateResponse ==
    /\ apc = "validate"
    /\ LET v == PageAnalysisSchema(raw_response)
       IN  /\ raw_response' = v.values
           /\ CASE v.outcome = "ok" -> analysis' = v.dump /\ apc' = "returned"
                [] v.outcome = "ValidationError" ->
                      apc' = "fix" /\ UNCHANGED analysis
                [] OTHER -> apc' = "raised" /\ UNCHANGED analysis
    /\ UNCHANGED <<fixed_response, notPage>>

FixPageAnalysisErrors ==
    /\ apc = "fix"
    /\ LET f == _fix_page_analysis_errors(raw_response)
       IN  IF f.raises
           THEN apc' = "raised" /\ UNCHANGED fixed_response
           ELSE apc' = "revalidate" /\ fixed_response' = f.value
    /\ UNCHANGED <<raw_response, analysis, notPage>>

ValidateFixed ==
    /\ apc = "revalidate"
    /\ LET v == PageAnalysisSchema(fixed_response)
       IN  CASE v.outcome = "ok" -> analysis' = v.dump /\ apc' = "returned"
             [] v.outcome = "ValidationError" ->
                   /\ analysis' = model_dump(_get_default_error_response)
                   /\ apc' = "returned"
             [] OTHER -> apc' = "raised" /\ UNCHANGED analysis
    /\ UNCHANGED <<raw_response, fixed_response, notPage>>

pageIdle ==
    /\ apc = "idle"
    /\ raw_response = _get_default_error_response
    /\ fixed_response = _get_default_error_response
    /\ analysis = NoAnalysis

-----------------------------------------------------------------------------
(* PageAnalyzer: analyze_page and get_recommended_action each ask the GPT    *)
(* service for an analysis of the page (two calls, two responses), and       *)
(* should_proceed_with_action decides on what the two built.                 *)

MaxDecideCta == 2    \* CTA candidates of an analysis

\* CTACandidate.__lt__: higher confidence first, then higher priority_score
CTACandidate_lt(self, other) ==
    IF self.confidence # other.confidence
    THEN self.confidence > other.confidence
    ELSE self.priority_score > other.priority_score

\* x put before the first element it is less than, else at the end
RECURSIVE InsertSorted(_, _)
InsertSorted(x, s) ==
    IF s = <<>> THEN <<x>>
    ELSE IF CTACandidate_lt(x, Head(s)) THEN <<x>> \o s
         ELSE <<Head(s)>> \o InsertSorted(x, Tail(s))

\* sorted(cta_candidates): stable, by __lt__ alone
RECURSIVE sorted(_)
sorted(s) ==
    IF s = <<>> THEN <<>>
    ELSE InsertSorted(s[Len(s)], sorted(SubSeq(s, 1, Len(s) - 1)))

DefaultAnalysisResult ==
    [page_type |-> "unknown", confidence |-> 0, form_count |-> 0,
     has_apply_button |-> FALSE, cta_candidates |-> <<>>]

DefaultRecommendedAction == [action_type |-> "wait_for_human", confidence |-> 0]

ClickCtaPageTypesWithFormPage == {"job_detail", "job_detail_with_form", "form_page"}

\* the page types should_proceed_with_action accepts a click_cta on
ClickCtaPageTypes == {"job_detail", "job_detail_with_form"}

\* PageAnalyzer.should_proceed_with_action
should_proceed_with_action(ar, ra, min_conf) ==
    IF ra.confidence < min_conf THEN FALSE
    ELSE IF ra.action_type = "fill_form"
    THEN IF ar.form_count > 0
         THEN ar.page_type \in {"job_detail_with_form", "form_page"}
         ELSE FALSE
    ELSE IF ra.action_type = "click_cta"
    THEN IF ar.page_type \in ClickCtaPageTypes
         THEN IF ar.cta_candidates # <<>>
              THEN ar.cta_candidates[1].confidence >= min_conf
              ELSE FALSE
         ELSE FALSE
    ELSE FALSE

\* the analyses analyze_page_content can return: validated, hence consistent
DecideCtaItems == [confidence : {50, 90}, priority_score : {1, 5}]
GptResponses ==
    {g \in [page_type : PageTypes, confidence : {70}, form_count : {0, 2},
            has_apply_button : BOOLEAN,
            cta_candidates : UNION {[1..k -> DecideCtaItems] : k \in 0..MaxDecideCta}] :
        /\ g.page_type \in {"job_detail_with_form", "form_page"} => g.form_count > 0
        /\ g.has_apply_button => g.cta_candidates # <<>>}
ActionResponses == [action_type : ActionTypes, confidence : {50, 70, 90}]

\* PageAnalyzer.analyze_page
AnalyzePage ==
    /\ dpc = "analyze_page"
    /\ \/ analysis_result' = [gpt_response EXCEPT
                                 !.cta_candidates = sorted(gpt_response.cta_candidates)]
       \/ \* the GPT call raised
          analysis_result' = DefaultAnalysisResult
    /\ dpc' = "get_recommended_action"
    /\ UNCHANGED <<gpt_response, recommended_action, min_confidence, proceed, notDecide>>

\* PageAnalyzer.get_recommended_action, on its own response
GetRecommendedAction ==
    /\ dpc = "get_recommended_action"
    /\ \/ \E action_data \in ActionResponses : recommended_action' = action_data
       \/ \* the GPT call raised
          recommended_action' = DefaultRecommendedAction
    /\ dpc' = "should_proceed_with_action"
    /\ UNCHANGED <<gpt_response, analysis_result, min_confidence, proceed, notDecide>>

ShouldProceedWithAction ==
    /\ dpc = "should_proceed_with_action"
    /\ proceed' = should_proceed_with_action(analysis_result, recommended_action,
                                             min_confidence)
    /\ dpc' = "done"
    /\ UNCHANGED <<gpt_response, analysis_result, recommended_action, min_confidence,
                   notDecide>>

decideIdle ==
    /\ dpc = "idle"
    /\ gpt_response = DefaultAnalysisResult
    /\ analysis_result = DefaultAnalysisResult
    /\ recommended_action = DefaultRecommendedAction
    /\ min_confidence = 60
    /\ proceed = FALSE

-----------------------------------------------------------------------------
(* GPTService._make_request, response_format "json": json.loads of the      *)
(* reply, and on failure the regex repair and a second json.loads.  Texts    *)
(* are tuples of characters.  A JSON value is [kind, members]: an object's   *)
(* members are [key, kind, items], a string member holds its text as the     *)
(* one item, an array member holds its strings.                              *)

MaxStrLen == 2    \* characters in a string value of a reply

quote == "\""
At(s, k) == IF k >= 1 /\ k <= Len(s) THEN s[k] ELSE "EOF"
StartsWith(s, i, p) == i + Len(p) - 1 <= Len(s) /\ SubSeq(s, i, i + Len(p) - 1) = p

\* the end of the whitespace run that starts at i (regex \s*, and JSON whitespace)
RECURSIVE SkipSpace(_, _)
SkipSpace(s, i) == IF IsSpace(At(s, i)) THEN SkipSpace(s, i + 1) ELSE i

\* first index >= i holding the text p, 0 for none
RECURSIVE Find(_, _, _)
Find(s, i, p) ==
    IF i > Len(s) THEN 0
    ELSE IF StartsWith(s, i, p) THEN i ELSE Find(s, i + 1, p)

Member(key, kind, items) == [key |-> key, kind |-> kind, items |-> items]
Failed == [ok |-> FALSE, kind |-> "none", members |-> <<>>, next |-> 0]

\* ---- json.loads ----------------------------------------------------------
\* a string literal at i: up to the next quote, no control character inside
ScanString(s, i) ==
    LET j == Find(s, i + 1, <<quote>>)
    IN  IF At(s, i) # quote \/ j = 0 THEN Failed
        ELSE IF \E k \in (i + 1)..(j - 1) : s[k] = "\n" THEN Failed
        ELSE [ok |-> TRUE, kind |-> "string",
              members |-> <<Member(<<>>, "str", <<SubSeq(s, i + 1, j - 1)>>)>>,
              next |-> j + 1]

\* the elements of an array from k on, acc the strings read so far
RECURSIVE ScanElements(_, _, _)
ScanElements(s, k, acc) ==
    LET e == ScanString(s, k)
        k2 == SkipSpace(s, e.next)
    IN  IF ~e.ok THEN Failed
        ELSE IF At(s, k2) = ","
             THEN ScanElements(s, SkipSpace(s, k2 + 1), acc \o e.members[1].items)
        ELSE IF At(s, k2) = "]"
             THEN [ok |-> TRUE, kind |-> "array",
                   members |-> <<Member(<<>>, "arr", acc \o e.members[1].items)>>,
                   next |-> k2 + 1]
        ELSE Failed

ScanArray(s, i) ==
    LET k == SkipSpace(s, i + 1)
    IN  IF At(s, k) = "]"
        THEN [ok |-> TRUE, kind |-> "array",
              members |-> <<Member(<<>>, "arr", <<>>)>>, next |-> k + 1]
        ELSE ScanElements(s, k, <<>>)

\* a member's value: a string or an array of strings
ScanValue(s, i) ==
    IF At(s, i) = quote THEN ScanString(s, i)
    ELSE IF At(s, i) = "[" THEN ScanArray(s, i)
    ELSE Failed

\* the members of an object from k on
RECURSIVE ScanMembers(_, _, _)
ScanMembers(s, k, acc) ==
    LET key == ScanString(s, k)
        k2 == SkipSpace(s, key.next)
        v == ScanValue(s, SkipSpace(s, k2 + 1))
        k4 == SkipSpace(s, v.next)
        m == Member(key.members[1].items[1], v.members[1].kind, v.members[1].items)
    IN  IF ~key.ok \/ At(s, k2) # ":" THEN Failed
        ELSE IF ~v.ok THEN Failed
        ELSE IF At(s, k4) = "," THEN ScanMembers(s, SkipSpace(s, k4 + 1), Append(acc, m))
        ELSE IF At(s, k4) = "}"
             THEN [ok |-> TRUE, kind |-> "object", members |-> Append(acc, m),
                   next |-> k4 + 1]
        ELSE Failed

ScanObject(s, i) ==
    LET k == SkipSpace(s, i + 1)
    IN  IF At(s, k) = "}"
        THEN [ok |-> TRUE, kind |-> "object", members |-> <<>>, next |-> k + 1]
        ELSE ScanMembers(s, k, <<>>)

\* json.loads: one value, whitespace around it, nothing else
json_loads(s) ==
    LET i == SkipSpace(s, 1)
        v == IF At(s, i) = "{" THEN ScanObject(s, i)
             ELSE IF At(s, i) = "[" THEN ScanArray(s, i)
             ELSE ScanString(s, i)
    IN  IF v.ok /\ SkipSpace(s, v.next) = Len(s) + 1 THEN v ELSE Failed

\* ---- the repair regexes --------------------------------------------------
\* the backtick character
tick == "BT"
fence == <<tick, tick, tick>>
fence_json == fence \o <<"j", "s", "o", "n">>

\* re.sub(r'```json\s*', '', content)
RECURSIVE RemoveFenceOpen(_, _)
RemoveFenceOpen(s, i) ==
    IF i > Len(s) THEN <<>>
    ELSE IF StartsWith(s, i, fence_json)
         THEN RemoveFenceOpen(s, SkipSpace(s, i + Len(fence_json)))
         ELSE <<s[i]>> \o RemoveFenceOpen(s, i + 1)

\* re.sub(r'```\s*$', '', content): the leftmost fence with only whitespace after it
RemoveFenceClose(s) ==
    LET P == {i \in 1..Len(s) : /\ StartsWith(s, i, fence)
                                /\ SkipSpace(s, i + Len(fence)) = Len(s) + 1}
    IN  IF P = {} THEN s ELSE SubSeq(s, 1, Min(P) - 1)

\* re.search(r'\{.*\}', content, re.DOTALL): first "{" to last "}", <<>> for no match
SearchObject(s) ==
    LET opens == {i \in 1..Len(s) : s[i] = "{"}
        closes == {j \in 1..Len(s) : s[j] = "}"}
    IN  IF opens = {} \/ closes = {} \/ Max(closes) < Min(opens) THEN <<>>
        ELSE SubSeq(s, Min(opens), Max(closes))

\* re.sub(r'\s*//.*?\n', '\n', json_str): a match at i runs over the whitespace,
\* the two slashes and the rest of the line
RECURSIVE RemoveLineComments(_, _)
RemoveLineComments(s, i) ==
    LET q == SkipSpace(s, i)
        e == IF StartsWith(s, q, <<"/", "/">>) THEN Find(s, q + 2, <<"\n">>) ELSE 0
    IN  IF i > Len(s) THEN <<>>
        ELSE IF e # 0 THEN <<"\n">> \o RemoveLineComments(s, e + 1)
        ELSE <<s[i]>> \o RemoveLineComments(s, i + 1)

\* re.sub(r'/\*.*?\*/', '', json_str, flags=re.DOTALL)
RECURSIVE RemoveBlockComments(_, _)
RemoveBlockComments(s, i) ==
    LET e == IF StartsWith(s, i, <<"/", "*">>) THEN Find(s, i + 2, <<"*", "/">>) ELSE 0
    IN  IF i > Len(s) THEN <<>>
        ELSE IF e # 0 THEN RemoveBlockComments(s, e + 2)
        ELSE <<s[i]>> \o RemoveBlockComments(s, i + 1)

\* re.sub(r',\s*}', '}', json_str) and re.sub(r',\s*]', ']', json_str)
RECURSIVE RemoveTrailingComma(_, _, _)
RemoveTrailingComma(s, i, closer) ==
    LET q == SkipSpace(s, i + 1)
    IN  IF i > Len(s) THEN <<>>
        ELSE IF s[i] = "," /\ At(s, q) = closer
             THEN <<closer>> \o RemoveTrailingComma(s, q + 1, closer)
        ELSE <<s[i]>> \o RemoveTrailingComma(s, i + 1, closer)

\* lines 210-213
CleanJson(s) ==
    RemoveTrailingComma(
        RemoveTrailingComma(
            RemoveBlockComments(RemoveLineComments(s, 1), 1), 1, "}"), 1, "]")

\* ---- the replies ---------------------------------------------------------
StrChars == {"a", ",", "}", "]", "/", "*", "\n"}
StrValues == UNION {[1..k -> StrChars \ {"\n"}] : k \in 0..MaxStrLen}

Lit(v) == <<quote>> \o v \o <<quote>>

\* the text of {"k": v, "m": [w]}, with or without trailing commas, on one line
\* or one member per line
Render(v, w, trailing, pretty) ==
    LET sep == IF pretty THEN <<"\n">> ELSE <<" ">>
        tc == IF trailing THEN <<",">> ELSE <<>>
    IN  <<"{">> \o sep \o Lit(<<"k">>) \o <<":", " ">> \o Lit(v) \o <<",">> \o sep
        \o Lit(<<"m">>) \o <<":", " ", "[">> \o Lit(w) \o tc \o <<"]">> \o tc \o sep
        \o <<"}">>

Fenced(body) == fence_json \o <<"\n">> \o body \o <<"\n">> \o fence

ObjectOf(v, w) ==
    [kind |-> "object",
     members |-> <<Member(<<"k">>, "str", <<v>>), Member(<<"m">>, "arr", <<w>>)>>]

NoObject == [kind |-> "none", members |-> <<>>]
DefaultParsed == [kind |-> "default", members |-> <<>>]

\* replies no JSON object can be recovered from
JunkReplies ==
    {<<"a">>, <<"{", "a">>, <<"{", "a", "}">>, <<"}", "a", "{">>, <<>>,
     Fenced(<<"a">>)}

\* a reply that is a JSON string, not an object
StringOf(v) == [kind |-> "string", members |-> <<Member(<<>>, "str", <<v>>)>>]

\* ---- _make_request -------------------------------------------------------
LoadsDirect ==
    /\ ppc = "loads"
    /\ LET v == json_loads(content)
       IN  IF v.ok
           THEN /\ parsed' = [kind |-> v.kind, members |-> v.members]
                /\ ppc' = "returned"
           ELSE /\ ppc' = "extract"
                /\ UNCHANGED parsed
    /\ UNCHANGED <<intended, content, json_str, notParse>>

ExtractJson ==
    /\ ppc = "extract"
    /\ content' = RemoveFenceClose(RemoveFenceOpen(content, 1))
    /\ json_str' = SearchObject(content')
    /\ IF json_str' = <<>>
       THEN parsed' = DefaultParsed /\ ppc' = "returned"
       ELSE ppc' = "clean" /\ UNCHANGED parsed
    /\ UNCHANGED <<intended, notParse>>

CleanAndLoad ==
    /\ ppc = "clean"
    /\ json_str' = CleanJson(json_str)
    /\ LET v == json_loads(json_str')
       IN  IF v.ok
           THEN parsed' = [kind |-> v.kind, members |-> v.members]
           ELSE parsed' = DefaultParsed
    /\ ppc' = "returned"
    /\ UNCHANGED <<intended, content, notParse>>

parseIdle ==
    /\ ppc = "idle"
    /\ intended = NoObject
    /\ content = <<>>
    /\ json_str = <<>>
    /\ parsed = NoObject

-----------------------------------------------------------------------------
(* ProFormFiller._analyze_element_group: the LLM's answer for one element    *)
(* group, _validate_action on each action of it, and the rule-based          *)
(* _fallback_analysis.  An LLM action is a record; the keys it lacks are      *)
(* marked by a type of "missing"; a value that is not a string carries its    *)
(* type and an empty text.                                                    *)

MaxLlmActions == 2      \* actions in one LLM answer
MaxElements == 2        \* elements of the group handed to the mapper

Chars(t, s) == [t |-> t, s |-> s]

valid_controls ==
    {"text", "email", "tel", "url", "number", "select", "radio", "checkbox", "file",
     "date", "datetime-local", "textarea", "custom-dropdown"}

\* Python truthiness of a JSON value
ValueTruthy(v) ==
    CASE v.t = "str" -> v.s # <<>>
      [] v.t = "int" -> TRUE        \* a non-zero number
      [] OTHER -> FALSE             \* null

\* _validate_action: the three required keys, a non-empty string selector,
\* a control of the list
_validate_action(a) ==
    /\ a.shape = "dict"       \* no key is `in` a string item
    /\ a.selector.t # "missing" /\ a.control # Missing /\ a.value.t # "missing"
    /\ a.selector.t = "str" /\ a.selector.s # <<>>
    /\ a.control \in valid_controls

\* the post-processing of a valid action: a file action without a value gets
\* the resume path of the candidate data
PostProcess(a, resume_path) ==
    IF a.control = "file" /\ ~ValueTruthy(a.value)
    THEN [a EXCEPT !.value = Chars("str", resume_path)]
    ELSE a

RECURSIVE ValidActions(_, _)
ValidActions(actions, resume_path) ==
    IF actions = <<>> THEN <<>>
    ELSE IF _validate_action(Head(actions))
         THEN <<PostProcess(Head(actions), resume_path)>>
                  \o ValidActions(Tail(actions), resume_path)
         ELSE ValidActions(Tail(actions), resume_path)

\* ---- _fallback_analysis ---------------------------------------------------

first_kw == <<"f", "i", "r", "s", "t">>
name_kw == <<"n", "a", "m", "e">>
last_kw == <<"l", "a", "s", "t">>
email_kw == <<"e", "m", "a", "i", "l">>
resume_kw == <<"r", "e", "s", "u", "m", "e">>
upload_kw == <<"u", "p", "l", "o", "a", "d">>
cv_kw == <<"c", "v">>
phone_kw == <<"p", "h", "o", "n", "e">>
linkedin_kw == <<"l", "i", "n", "k", "e", "d", "i", "n">>
github_kw == <<"g", "i", "t", "h", "u", "b">>
portfolio_kw == <<"p", "o", "r", "t", "f", "o", "l", "i", "o">>
website_kw == <<"w", "e", "b", "s", "i", "t", "e">>
authorized_kw == <<"a", "u", "t", "h", "o", "r", "i", "z", "e", "d">>
work_kw == <<"w", "o", "r", "k">>

\* the keyword table, in the order of the dict
rules ==
    << [keywords |-> {first_kw, name_kw}, data_key |-> "first_name", control |-> "text"],
       [keywords |-> {last_kw, name_kw}, data_key |-> "last_name", control |-> "text"],
       [keywords |-> {email_kw}, data_key |-> "email", control |-> "text"],
       [keywords |-> {phone_kw}, data_key |-> "phone", control |-> "text"],
       [keywords |-> {linkedin_kw}, data_key |-> "linkedin", control |-> "text"],
       [keywords |-> {github_kw}, data_key |-> "github", control |-> "text"],
       [keywords |-> {portfolio_kw, website_kw}, data_key |-> "portfolio",
        control |-> "text"],
       [keywords |-> {authorized_kw, work_kw}, data_key |-> "work_authorization",
        control |-> "text"],
       [keywords |-> {resume_kw, upload_kw, cv_kw}, data_key |-> "resume_path",
        control |-> "file"] >>

\* ' '.join([label, placeholder, ariaLabel, name, id]).lower(), the placeholder
\* and the aria label empty
combined_text(element) ==
    Lower(element.label \o <<" ", " ", " ">> \o element.name \o <<" ">> \o element.id)

\* personal_data.get(data_key, ''), and for the resume the file_path under the
\* top-level key resume
ProfileValue(data, data_key) ==
    CASE data_key = "first_name" -> data.first_name
      [] data_key = "last_name" -> data.last_name
      [] data_key = "email" -> data.email
      [] data_key = "phone" -> data.phone
      [] data_key = "linkedin" -> data.linkedin
      [] data_key = "github" -> data.github
      [] data_key = "portfolio" -> data.portfolio
      [] data_key = "work_authorization" -> data.work_authorization
      [] data_key = "resume_path" -> data.resume_file_path

\* the selector the fallback builds: #id, else [name='...'], else none
FallbackSelector(element) ==
    IF element.id # <<>> THEN <<"#">> \o element.id
    ELSE IF element.name # <<>>
         THEN <<"[", "n", "a", "m", "e", "=", "'">> \o element.name \o <<"'", "]">>
         ELSE <<>>

FallbackAction(selector, rule, value) ==
    [shape |-> "dict", selector |-> Chars("str", selector), control |-> rule.control,
     value |-> Chars("str", value), semantic |-> rule.data_key,
     confidence |-> [t |-> "int", n |-> 70]]

\* `for keywords, (data_key, control_type) in rules.items()` from rule k on:
\* the first rule with a keyword in the text, a truthy value and a selector
\* gives the action and ends the loop
RECURSIVE ElementAction(_, _, _)
ElementAction(element, data, k) ==
    IF k > Len(rules) THEN <<>>
    ELSE LET rule == rules[k]
             value == ProfileValue(data, rule.data_key)
         IN  IF /\ \E kw \in rule.keywords : Contains(kw, combined_text(element))
                /\ value # <<>>
                /\ FallbackSelector(element) # <<>>
             THEN <<FallbackAction(FallbackSelector(element), rule, value)>>
             ELSE ElementAction(element, data, k + 1)

RECURSIVE _fallback_analysis(_, _)
_fallback_analysis(els, data) ==
    IF els = <<>> THEN <<>>
    ELSE ElementAction(Head(els), data, 1) \o _fallback_analysis(Tail(els), data)

\* ---- the inputs -----------------------------------------------------------

sel_f == <<"#", "f">>
path_r == <<"/", "r">>

LlmAction(shape, selector, control, value, confidence) ==
    [shape |-> shape, selector |-> selector, control |-> control, value |-> value,
     confidence |-> confidence]

GoodAction == LlmAction("dict", Chars("str", sel_f), "text", Chars("str", <<"a">>),
                        [t |-> "int", n |-> 90])

\* the items an LLM answer may hold: dicts with and without the required keys,
\* and items that are no dict at all
LlmItems ==
    { GoodAction,
      [GoodAction EXCEPT !.selector = Chars("str", <<>>)],
      [GoodAction EXCEPT !.selector = Chars("int", <<>>)],
      [GoodAction EXCEPT !.selector = Chars("none", <<>>)],
      [GoodAction EXCEPT !.selector = Chars("missing", <<>>)],
      [GoodAction EXCEPT !.control = "slider"],
      [GoodAction EXCEPT !.control = Missing],
      [GoodAction EXCEPT !.value = Chars("missing", <<>>)],
      [GoodAction EXCEPT !.confidence = [t |-> "int", n |-> 150]],
      [GoodAction EXCEPT !.confidence = [t |-> "int", n |-> -10]],
      [GoodAction EXCEPT !.confidence = [t |-> "missing", n |-> 0]],
      [GoodAction EXCEPT !.control = "file", !.value = Chars("str", path_r)],
      [GoodAction EXCEPT !.control = "file", !.value = Chars("str", <<>>)],
      [GoodAction EXCEPT !.control = "file", !.value = Chars("int", <<>>)],
      [GoodAction EXCEPT !.shape = "str"],
      [GoodAction EXCEPT !.shape = "int"] }

LlmActionLists == UNION {[1..n -> LlmItems] : n \in 0..MaxLlmActions}

\* what _make_request gives: it raises, or returns a JSON array, an object with
\* the key actions, or an object without it (the default error response is one)
LlmResponses ==
    {[kind |-> k, items |-> items] : k \in {"list", "actions"}, items \in LlmActionLists}
        \cup {[kind |-> k, items |-> <<>>] : k \in {"raise", "object"}}

Element(label, name, id) == [label |-> label, name |-> name, id |-> id]

Elements ==
    { Element(<<"E", "m", "a", "i", "l">>, <<>>, <<"e">>),
      Element(<<"N", "a", "m", "e">>, <<"n">>, <<>>),
      Element(<<"C", "v">>, <<>>, <<"u">>),
      Element(<<"E", "m", "a", "i", "l">>, <<>>, <<>>) }

ElementLists == UNION {[1..n -> Elements] : n \in 0..MaxElements}

\* the candidate data: the default structure (no top-level field keys, the
\* resume path under files), and a flat profile with top-level keys
Profile(first_name, last_name, email, phone, resume_file_path, files_resume) ==
    [first_name |-> first_name, last_name |-> last_name, email |-> email, phone |-> phone,
     linkedin |-> <<>>, github |-> <<>>, portfolio |-> <<>>, work_authorization |-> <<>>,
     resume_file_path |-> resume_file_path, files_resume |-> files_resume]

Profiles ==
    { Profile(<<>>, <<>>, <<>>, <<>>, <<>>, <<>>),
      Profile(<<"A">>, <<>>, <<"a", "@", "b">>, <<>>, path_r, path_r) }

\* ---- _analyze_element_group -----------------------------------------------

\* an item that is no dict and no string: `field not in action` raises TypeError
ItemRaises(a) == a.shape = "int"

\* _make_request returned or raised
LlmAnswers ==
    /\ mpc = "call"
    /\ CASE llm.kind = "raise" -> mpc' = "fallback" /\ UNCHANGED mapped
         [] llm.kind = "object" -> mpc' = "returned" /\ mapped' = <<>>
         [] OTHER -> mpc' = "validate" /\ UNCHANGED mapped
    /\ UNCHANGED <<llm, group, personal_data, notMap>>

\* `for action in actions`: the valid ones are kept; an item that raises ends
\* the try
ValidateActions ==
    /\ mpc = "validate"
    /\ IF \E i \in 1..Len(llm.items) : ItemRaises(llm.items[i])
       THEN mpc' = "fallback" /\ UNCHANGED mapped
       ELSE /\ mapped' = ValidActions(llm.items, personal_data.files_resume)
            /\ mpc' = "returned"
    /\ UNCHANGED <<llm, group, personal_data, notMap>>

\* the except handler
FallbackAnalysis ==
    /\ mpc = "fallback"
    /\ mapped' = _fallback_analysis(group, personal_data)
    /\ mpc' = "returned"
    /\ UNCHANGED <<llm, group, personal_data, notMap>>

mapIdle ==
    /\ mpc = "idle"
    /\ llm = [kind |-> "raise", items |-> <<>>]
    /\ group = <<>>
    /\ personal_data = CHOOSE p \in Profiles : p.email = <<>>
    /\ mapped = <<>>

-----------------------------------------------------------------------------
(* DOMSnapshot._group_elements_by_logic: the elements are grouped by their    *)
(* logicalGroup, and a group over the cap is cut into parts.  An element is   *)
(* known by its position in the input list.                                   *)

MaxSnapshotElements == 5    \* elements of a snapshot
MaxGroupSize == 3           \* the largest cap tried

default_s == <<"d", "e", "f", "a", "u", "l", "t">>
part_s == <<"_", "p", "a", "r", "t">>

Digit(d) ==
    CASE d = 0 -> "0" [] d = 1 -> "1" [] d = 2 -> "2" [] d = 3 -> "3" [] d = 4 -> "4"
      [] d = 5 -> "5" [] d = 6 -> "6" [] d = 7 -> "7" [] d = 8 -> "8" [] d = 9 -> "9"

\* str(n) of a natural number
RECURSIVE ToStr(_)
ToStr(n) == IF n < 10 THEN <<Digit(n)>> ELSE ToStr(n \div 10) \o <<Digit(n % 10)>>

\* element.get('logicalGroup', 'default')
LogicalGroup(element) == IF element = <<>> THEN default_s ELSE element

\* the first loop from element i on: groups[group_name].append(element), a new
\* name entering the dict behind the names it holds
RECURSIVE GroupByName(_, _, _)
GroupByName(els, i, acc) ==
    IF i > Len(els) THEN acc
    ELSE LET name == LogicalGroup(els[i])
             at == {k \in 1..Len(acc) : acc[k].name = name}
         IN  GroupByName(els, i + 1,
                 IF at = {}
                 THEN Append(acc, [name |-> name, members |-> <<i>>])
                 ELSE [acc EXCEPT ![CHOOSE k \in at : TRUE].members = Append(@, i)])

\* a part that also takes the first element of the next part
SliceEndOverlap(i, size) == i + size + 1

\* the end of the slice group_elements[i:i + max_group_size]
SliceEnd(i, size) == i + size

\* range(0, len(group_elements), max_group_size): part k starts at (k-1)*size
SplitGroup(g, size) ==
    [k \in 1..((Len(g.members) + size - 1) \div size) |->
        [groupName |-> g.name \o part_s \o ToStr(k),
         elements |-> SubSeq(g.members, (k - 1) * size + 1,
                             Min({SliceEnd((k - 1) * size, size), Len(g.members)}))]]

\* the second loop: a group within the cap is kept, a larger one is cut
RECURSIVE SplitGroups(_, _)
SplitGroups(gs, size) ==
    IF gs = <<>> THEN <<>>
    ELSE (IF Len(Head(gs).members) <= size
          THEN <<[groupName |-> Head(gs).name, elements |-> Head(gs).members]>>
          ELSE SplitGroup(Head(gs), size))
             \o SplitGroups(Tail(gs), size)

\* the logicalGroup of an element; <<>> stands for an element without the key
LogicalGroups == {<<"a">>, <<"b">>, <<>>}

ElementInputs == UNION {[1..n -> LogicalGroups] : n \in 0..MaxSnapshotElements}

\* `for element in elements`
GroupByLogic ==
    /\ gpc = "group"
    /\ groups' = GroupByName(elements, 1, <<>>)
    /\ gpc' = "split"
    /\ UNCHANGED <<elements, max_group_size, grouped, notGroup>>

\* `for group_name, group_elements in groups.items()` and the return
SplitLargeGroups ==
    /\ gpc = "split"
    /\ grouped' = SplitGroups(groups, max_group_size)
    /\ gpc' = "returned"
    /\ UNCHANGED <<elements, max_group_size, groups, notGroup>>

groupIdle ==
    /\ gpc = "idle"
    /\ elements = <<>>
    /\ max_group_size = 1
    /\ groups = <<>>
    /\ grouped = <<>>

-----------------------------------------------------------------------------
(* FieldLearningSystem: every session builds its own instance over the one    *)
(* knowledge-base file; learn_field_mapping records an example and saves the  *)
(* whole in-memory knowledge base; get_learned_mapping looks a field up;      *)
(* export_knowledge writes the export document.  An example carries the       *)
(* session and a serial number in place of its context and timestamp.         *)

MaxRecords == 3     \* examples recorded in one run, all sessions together

Sessions == {1, 2}
FieldKeys == {"k1", "k2"}

\* a field as the lookups see it: its key and the words of its label
LearnFields == {[key |-> "k1", patterns |-> {"p"}], [key |-> "k2", patterns |-> {"p", "q"}]}
UserValues == {"a", "b", "c"}

NoMapping == [present |-> FALSE, semantic_type |-> "", patterns |-> {}, examples |-> <<>>,
              confidence |-> 0]

\* the empty knowledge base of _load_knowledge_base
EmptyMappings == [k \in FieldKeys |-> NoMapping]

\* the entry a first record creates
NewMapping(field) ==
    [present |-> TRUE, semantic_type |-> "custom_field", patterns |-> field.patterns,
     examples |-> <<>>, confidence |-> 50]

\* round(x, 2) of x = num/den hundredths: to the nearest, a tie to the even one
Round2(num, den) ==
    LET q == num \div den
        r == num % den
    IN  IF 2 * r < den THEN q
        ELSE IF 2 * r > den THEN q + 1
        ELSE IF q % 2 = 0 THEN q ELSE q + 1

\* the confidence left without its ceiling
Uncapped(num, den) == num

\* min(0.95, x) for x = num/den hundredths, over the same denominator
Cap(num, den) == IF num > 95 * den THEN 95 * den ELSE num

\* the confidence computed from the example count alone
CountOnlyConfidence(examples) == Min({95, 50 + 10 * Len(examples)})

\* _update_confidence: example count, consistency of the values, the ceiling,
\* the rounding; in hundredths
_update_confidence(examples) ==
    LET example_count == Len(examples)
        unique_values == Cardinality({examples[i].value : i \in 1..example_count})
        \* consistency = c / d
        d == IF example_count > 1 THEN example_count ELSE 2
        c == IF example_count > 1 THEN example_count - (unique_values - 1) ELSE 1
        num == (50 + 10 * example_count) * d + 30 * c
    IN  Round2(Cap(num, d), d)

\* __init__ of a session's FieldLearningSystem: _load_knowledge_base reads the file
Construct(s) ==
    /\ lpc[s] = "new"
    /\ \A t \in Sessions : t < s => lpc[t] = "ready"    \* the sessions start in order
    /\ lpc' = [lpc EXCEPT ![s] = "ready"]
    /\ knowledge_base' = [knowledge_base EXCEPT ![s] = kb_file]
    /\ UNCHANGED <<kb_file, recorded, handed, export_data, imported, notLearn>>

\* learn_field_mapping: the entry is created if new, the example appended, the
\* confidence updated, and _save_knowledge_base writes the instance's whole
\* knowledge base over the file
LearnFieldMapping(s, field, user_value) ==
    /\ lpc[s] = "ready"
    /\ ~export_data.done
    /\ Cardinality(recorded) < MaxRecords
    /\ LET field_key == field.key
           mapping == IF knowledge_base[s][field_key].present
                      THEN knowledge_base[s][field_key]
                      ELSE NewMapping(field)
           example == [value |-> user_value, session |-> s,
                       serial |-> Cardinality({r \in recorded : r.example.session = s}) + 1]
           examples == Append(mapping.examples, example)
           updated == [mapping EXCEPT !.examples = examples,
                                      !.confidence = _update_confidence(examples)]
       IN  /\ knowledge_base' = [knowledge_base EXCEPT ![s][field_key] = updated]
           /\ kb_file' = [knowledge_base[s] EXCEPT ![field_key] = updated]
           /\ recorded' = recorded \cup {[key |-> field_key, example |-> example]}
    /\ UNCHANGED <<lpc, handed, export_data, imported, notLearn>>

\* get_learned_mapping: the exact key with a confidence over 0.6, else a mapping
\* sharing a pattern with a confidence over 0.7 (platform_specific is never
\* written and stays empty); the dict of the knowledge base itself is returned
GetLearnedMapping(s, field) ==
    /\ lpc[s] = "ready"
    /\ ~export_data.done
    /\ \A t \in Sessions : handed[t] = None     \* one lookup in a run
    /\ LET fm == knowledge_base[s]
           fuzzy == {k \in FieldKeys : /\ fm[k].present
                                       /\ fm[k].patterns \cap field.patterns # {}
                                       /\ fm[k].confidence > 70}
       IN  IF fm[field.key].present /\ fm[field.key].confidence > 60
           THEN handed' = [handed EXCEPT ![s] = field.key]
           ELSE IF fuzzy # {}
                THEN \E k \in fuzzy : handed' = [handed EXCEPT ![s] = k]
                ELSE handed' = [handed EXCEPT ![s] = None]
    /\ UNCHANGED <<lpc, knowledge_base, kb_file, recorded, export_data, imported, notLearn>>

\* the caller writes into the mapping a lookup returned: the object is the one
\* the knowledge base holds
MutateHandedMapping(s) ==
    /\ lpc[s] = "ready"
    /\ ~export_data.done
    /\ handed[s] # None
    /\ knowledge_base[s][handed[s]].semantic_type # "edited"
    /\ knowledge_base' = [knowledge_base EXCEPT ![s][handed[s]].semantic_type = "edited"]
    /\ UNCHANGED <<lpc, kb_file, recorded, handed, export_data, imported, notLearn>>

NoExport == [done |-> FALSE, by |-> 0, total_mappings |-> 0, total_examples |-> 0,
             high_confidence_mappings |-> EmptyMappings]

RECURSIVE SumExamples(_, _)
SumExamples(fm, keys) ==
    IF keys = {} THEN 0
    ELSE LET k == CHOOSE x \in keys : TRUE
         IN  Len(fm[k].examples) + SumExamples(fm, keys \ {k})

\* export_knowledge: the counts and the mappings with a confidence over 0.8
ExportKnowledge(s) ==
    /\ lpc[s] = "ready"
    /\ ~export_data.done
    /\ LET fm == knowledge_base[s]
       IN  export_data' =
               [done |-> TRUE, by |-> s,
                total_mappings |-> Cardinality({k \in FieldKeys : fm[k].present}),
                total_examples |-> SumExamples(fm, FieldKeys),
                high_confidence_mappings |->
                    [k \in FieldKeys |-> IF fm[k].present /\ fm[k].confidence > 80
                                         THEN fm[k] ELSE NoMapping]]
    /\ UNCHANGED <<lpc, knowledge_base, kb_file, recorded, handed, imported, notLearn>>

NotImported ==
    [done |-> FALSE, has_field_mappings |-> FALSE, field_mappings |-> EmptyMappings,
     high_confidence_mappings |-> EmptyMappings]

\* a FieldLearningSystem built over the exported document: _load_knowledge_base
\* returns what json.load reads, a dict whose keys are those of the export
ImportExported ==
    /\ export_data.done
    /\ ~imported.done
    /\ imported' = [done |-> TRUE, has_field_mappings |-> FALSE,
                    field_mappings |-> EmptyMappings,
                    high_confidence_mappings |-> export_data.high_confidence_mappings]
    /\ UNCHANGED <<lpc, knowledge_base, kb_file, recorded, handed, export_data, notLearn>>

learnIdle ==
    /\ lpc = [s \in Sessions |-> "idle"]
    /\ knowledge_base = [s \in Sessions |-> EmptyMappings]
    /\ kb_file = EmptyMappings
    /\ recorded = {}
    /\ handed = [s \in Sessions |-> None]
    /\ export_data = NoExport
    /\ imported = NotImported

-----------------------------------------------------------------------------
(* EnhancedDataManager.get_field_value: the identifier is normalized, the     *)
(* first mapping of the table with a matching pattern gives the data path,    *)
(* and the value read there is formatted and normalized.  A profile value is  *)
(* [t, s]: t its YAML type ("str", "int", "bool", "none"), s its str().       *)

IsAlnum(c) ==
    c \in {"a", "b", "c", "d", "e", "f", "g", "h", "i", "j", "k", "l", "m", "n", "o", "p",
           "q", "r", "s", "t", "u", "v", "w", "x", "y", "z",
           "0", "1", "2", "3", "4", "5", "6", "7", "8", "9"}

IsDigit(c) == c \in {"0", "1", "2", "3", "4", "5", "6", "7", "8", "9"}

\* re.sub(r'[^a-z0-9]+', '.', s): every run of other characters becomes one dot
RECURSIVE DotRuns(_)
DotRuns(s) ==
    IF s = <<>> THEN <<>>
    ELSE IF IsAlnum(Head(s)) THEN <<Head(s)>> \o DotRuns(Tail(s))
    ELSE IF Len(s) > 1 /\ ~IsAlnum(s[2]) THEN DotRuns(Tail(s))
    ELSE <<".">> \o DotRuns(Tail(s))

\* str.strip('.')
StripDots(s) ==
    LET idx == {i \in 1..Len(s) : s[i] # "."}
    IN  IF idx = {} THEN <<>> ELSE SubSeq(s, Min(idx), Max(idx))

_normalize_field_identifier(identifier) ==
    IF identifier = <<>> THEN <<>> ELSE StripDots(DotRuns(Lower(identifier)))

\* pattern.lower() in identifier or identifier in pattern.lower(), for some pattern
_matches_pattern(identifier, patterns) ==
    \E i \in 1..Len(patterns) :
        \/ Contains(Lower(patterns[i]), identifier)
        \/ Contains(identifier, Lower(patterns[i]))

\* _create_field_mappings: the table in the order of the dict; a mapping without
\* format_func has "", one without value_map has <<>>
field_mappings ==
    <<
      [field_name |-> "first_name",
        patterns |-> <<
            <<"f", "i", "r", "s", "t", ".", "n", "a", "m", "e">>,
            <<"f", "i", "r", "s", "t", "N", "a", "m", "e">>,
            <<"f", "n", "a", "m", "e">>,
            <<"g", "i", "v", "e", "n", ".", "n", "a", "m", "e">> >>,
        data_path |-> "basic_info.first_name",
        computed |-> FALSE,
        format_func |-> "",
        value_map |-> <<>>],
      [field_name |-> "last_name",
        patterns |-> <<
            <<"l", "a", "s", "t", ".", "n", "a", "m", "e">>,
            <<"l", "a", "s", "t", "N", "a", "m", "e">>,
            <<"l", "n", "a", "m", "e">>,
            <<"f", "a", "m", "i", "l", "y", ".", "n", "a", "m", "e">>,
            <<"s", "u", "r", "n", "a", "m", "e">> >>,
        data_path |-> "basic_info.last_name",
        computed |-> FALSE,
        format_func |-> "",
        value_map |-> <<>>],
      [field_name |-> "full_name",
        patterns |-> <<
            <<"f", "u", "l", "l", ".", "n", "a", "m", "e">>,
            <<"f", "u", "l", "l", "N", "a", "m", "e">>,
            <<"l", "e", "g", "a", "l", ".", "n", "a", "m", "e">>,
            <<"c", "o", "m", "p", "l", "e", "t", "e", ".", "n", "a", "m", "e">> >>,
        data_path |-> "basic_info.full_name",
        computed |-> TRUE,
        format_func |-> "",
        value_map |-> <<>>],
      [field_name |-> "email",
        patterns |-> <<
            <<"e", "m", "a", "i", "l">>,
            <<"e", ".", "m", "a", "i", "l">>,
            <<"e", "m", "a", "i", "l", "A", "d", "d", "r", "e", "s", "s">>,
            <<"m", "a", "i", "l">> >>,
        data_path |-> "basic_info.email",
        computed |-> FALSE,
        format_func |-> "",
        value_map |-> <<>>],
      [field_name |-> "phone",
        patterns |-> <<
            <<"p", "h", "o", "n", "e">>,
            <<"t", "e", "l", "e", "p", "h", "o", "n", "e">>,
            <<"m", "o", "b", "i", "l", "e">>,
            <<"t", "e", "l">>,
            <<"p", "h", "o", "n", "e", "N", "u", "m", "b", "e", "r">> >>,
        data_path |-> "basic_info.phone",
        computed |-> FALSE,
        format_func |-> "_format_phone",
        value_map |-> <<>>],
      [field_name |-> "university",
        patterns |-> <<
            <<"u", "n", "i", "v", "e", "r", "s", "i", "t", "y">>,
            <<"c", "o", "l", "l", "e", "g", "e">>,
            <<"s", "c", "h", "o", "o", "l">>,
            <<"i", "n", "s", "t", "i", "t", "u", "t", "i", "o", "n">>,
            <<"a", "l", "m", "a", ".", "m", "a", "t", "e", "r">> >>,
        data_path |-> "education.university",
        computed |-> FALSE,
        format_func |-> "",
        value_map |-> <<>>],
      [field_name |-> "degree",
        patterns |-> <<
            <<"d", "e", "g", "r", "e", "e">>,
            <<"q", "u", "a", "l", "i", "f", "i", "c", "a", "t", "i", "o", "n">>,
            <<"e", "d", "u", "c", "a", "t", "i", "o", "n", ".", "l", "e", "v", "e", "l">> >>,
        data_path |-> "education.degree",
        computed |-> FALSE,
        format_func |-> "",
        value_map |-> <<>>],
      [field_name |-> "major",
        patterns |-> <<
            <<"m", "a", "j", "o", "r">>,
            <<"f", "i", "e", "l", "d", ".", "o", "f", ".", "s", "t", "u", "d", "y">>,
            <<"s", "p", "e", "c", "i", "a", "l", "i", "z", "a", "t", "i", "o", "n">>,
            <<"s", "u", "b", "j", "e", "c", "t">> >>,
        data_path |-> "education.major",
        computed |-> FALSE,
        format_func |-> "",
        value_map |-> <<>>],
      [field_name |-> "graduation_year",
        patterns |-> <<
            <<"g", "r", "a", "d", "u", "a", "t", "i", "o", "n", ".", "y", "e", "a", "r">>,
            <<"y", "e", "a", "r", ".", "g", "r", "a", "d", "u", "a", "t", "e", "d">>,
            <<"c", "o", "m", "p", "l", "e", "t", "i", "o", "n", ".", "y", "e", "a", "r">> >>,
        data_path |-> "education.graduation_year",
        computed |-> FALSE,
        format_func |-> "",
        value_map |-> <<>>],
      [field_name |-> "current_company",
        patterns |-> <<
            <<"c", "u", "r", "r", "e", "n", "t", ".", "c", "o", "m", "p", "a", "n", "y">>,
            <<"e", "m", "p", "l", "o", "y", "e", "r">>,
            <<"o", "r", "g", "a", "n", "i", "z", "a", "t", "i", "o", "n">>,
            <<"w", "o", "r", "k", "p", "l", "a", "c", "e">> >>,
        data_path |-> "work_info.current_company",
        computed |-> FALSE,
        format_func |-> "",
        value_map |-> <<>>],
      [field_name |-> "current_title",
        patterns |-> <<
            <<"c", "u", "r", "r", "e", "n", "t", ".", "t", "i", "t", "l", "e">>,
            <<"p", "o", "s", "i", "t", "i", "o", "n">>,
            <<"r", "o", "l", "e">>,
            <<"j", "o", "b", ".", "t", "i", "t", "l", "e">> >>,
        data_path |-> "work_info.current_title",
        computed |-> FALSE,
        format_func |-> "",
        value_map |-> <<>>],
      [field_name |-> "years_experience",
        patterns |-> <<
            <<"y", "e", "a", "r", "s", ".", "e", "x", "p", "e", "r", "i", "e", "n", "c", "e">>,
            <<"e", "x", "p", "e", "r", "i", "e", "n", "c", "e", ".", "y", "e", "a", "r", "s">>,
            <<"w", "o", "r", "k", ".", "e", "x", "p", "e", "r", "i", "e", "n", "c", "e">> >>,
        data_path |-> "work_info.years_experience",
        computed |-> FALSE,
        format_func |-> "",
        value_map |-> <<>>],
      [field_name |-> "work_authorization",
        patterns |-> <<
            <<"w", "o", "r", "k", ".", "a", "u", "t", "h", "o", "r", "i", "z", "a", "t", "i", "o", "n">>,
            <<"a", "u", "t", "h", "o", "r", "i", "z", "e", "d", ".", "t", "o", ".", "w", "o", "r", "k">>,
            <<"l", "e", "g", "a", "l", ".", "t", "o", ".", "w", "o", "r", "k">> >>,
        data_path |-> "legal_status.work_authorization",
        computed |-> FALSE,
        format_func |-> "",
        value_map |-> <<
            <<<<"Y", "e", "s">>, <<"A", "u", "t", "h", "o", "r", "i", "z", "e", "d">>, <<"E", "l", "i", "g", "i", "b", "l", "e">>, <<"P", "e", "r", "m", "i", "t", "t", "e", "d">>>>,
            <<<<"N", "o">>, <<"N", "o", "t", " ", "A", "u", "t", "h", "o", "r", "i", "z", "e", "d">>, <<"N", "o", "t", " ", "E", "l", "i", "g", "i", "b", "l", "e">>, <<"R", "e", "q", "u", "i", "r", "e", "s", " ", "S", "p", "o", "n", "s", "o", "r", "s", "h", "i", "p">>>> >>],
      [field_name |-> "require_sponsorship",
        patterns |-> <<
            <<"r", "e", "q", "u", "i", "r", "e", ".", "s", "p", "o", "n", "s", "o", "r", "s", "h", "i", "p">>,
            <<"n", "e", "e", "d", ".", "s", "p", "o", "n", "s", "o", "r", "s", "h", "i", "p">>,
            <<"v", "i", "s", "a", ".", "s", "p", "o", "n", "s", "o", "r", "s", "h", "i", "p">> >>,
        data_path |-> "legal_status.require_sponsorship",
        computed |-> FALSE,
        format_func |-> "",
        value_map |-> <<
            <<<<"Y", "e", "s">>, <<"R", "e", "q", "u", "i", "r", "e", "d">>, <<"N", "e", "e", "d", "e", "d">>>>,
            <<<<"N", "o">>, <<"N", "o", "t", " ", "R", "e", "q", "u", "i", "r", "e", "d">>, <<"N", "o", "t", " ", "N", "e", "e", "d", "e", "d">>>> >>],
      [field_name |-> "salary_expectation",
        patterns |-> <<
            <<"s", "a", "l", "a", "r", "y", ".", "e", "x", "p", "e", "c", "t", "a", "t", "i", "o", "n">>,
            <<"e", "x", "p", "e", "c", "t", "e", "d", ".", "s", "a", "l", "a", "r", "y">>,
            <<"c", "o", "m", "p", "e", "n", "s", "a", "t", "i", "o", "n">> >>,
        data_path |-> "preferences.salary_expectation",
        computed |-> FALSE,
        format_func |-> "_format_salary",
        value_map |-> <<>>],
      [field_name |-> "willing_to_relocate",
        patterns |-> <<
            <<"w", "i", "l", "l", "i", "n", "g", ".", "t", "o", ".", "r", "e", "l", "o", "c", "a", "t", "e">>,
            <<"r", "e", "l", "o", "c", "a", "t", "e">>,
            <<"r", "e", "l", "o", "c", "a", "t", "i", "o", "n">> >>,
        data_path |-> "work_info.willing_to_relocate",
        computed |-> FALSE,
        format_func |-> "",
        value_map |-> <<
            <<<<"Y", "e", "s">>, <<"W", "i", "l", "l", "i", "n", "g">>, <<"O", "p", "e", "n", " ", "t", "o">>>>,
            <<<<"N", "o">>, <<"N", "o", "t", " ", "W", "i", "l", "l", "i", "n", "g">>, <<"P", "r", "e", "f", "e", "r", " ", "N", "o", "t", " ", "T", "o">>>> >>],
      [field_name |-> "resume",
        patterns |-> <<
            <<"r", "e", "s", "u", "m", "e">>,
            <<"c", "v">>,
            <<"c", "u", "r", "r", "i", "c", "u", "l", "u", "m", ".", "v", "i", "t", "a", "e">>,
            <<"u", "p", "l", "o", "a", "d", ".", "r", "e", "s", "u", "m", "e">> >>,
        data_path |-> "files.resume.file_path",
        computed |-> FALSE,
        format_func |-> "",
        value_map |-> <<>>]
    >>

\* Python truthiness of a profile value
Falsy(v) ==
    \/ v.t = "none"
    \/ v.t = "str" /\ v.s = <<>>
    \/ v.t = "bool" /\ v.s = <<"F", "a", "l", "s", "e">>
    \/ v.t = "int" /\ v.s = <<"0">>

Str(s) == [t |-> "str", s |-> s]
NoneValue == [t |-> "none", s |-> <<>>]
TypeError == [t |-> "TypeError", s |-> <<>>]

\* re.sub(r'[^\d]', '', s)
Digits(s) == SelectSeq(s, IsDigit)

\* _format_phone; re.sub raises TypeError on a value that is no string
_format_phone(phone) ==
    IF Falsy(phone) THEN Str(<<>>)
    ELSE IF phone.t # "str" THEN TypeError
    ELSE LET digits == Digits(phone.s)
         IN  IF Len(digits) = 10
             THEN Str(<<"(">> \o SubSeq(digits, 1, 3) \o <<")", " ">> \o SubSeq(digits, 4, 6)
                          \o <<"-">> \o SubSeq(digits, 7, 10))
             ELSE IF Len(digits) = 11 /\ digits[1] = "1"
             THEN Str(<<"(">> \o SubSeq(digits, 2, 4) \o <<")", " ">> \o SubSeq(digits, 5, 7)
                          \o <<"-">> \o SubSeq(digits, 8, 11))
             ELSE phone

\* int(digits): the leading zeros go
RECURSIVE StripZeros(_)
StripZeros(digits) ==
    IF Len(digits) > 1 /\ Head(digits) = "0" THEN StripZeros(Tail(digits)) ELSE digits

\* f"{n:,}": a comma before every group of three digits counted from the right
RECURSIVE Grouped(_)
Grouped(digits) ==
    IF Len(digits) <= 3 THEN digits
    ELSE Grouped(SubSeq(digits, 1, Len(digits) - 3)) \o <<",">>
             \o SubSeq(digits, Len(digits) - 2, Len(digits))

\* _format_salary
_format_salary(salary) ==
    IF Falsy(salary) THEN Str(<<>>)
    ELSE IF salary.t # "str" THEN TypeError
    ELSE LET digits == Digits(salary.s)
         IN  IF digits # <<>> THEN Str(Grouped(StripZeros(digits))) ELSE salary

\* the first list of variations that holds str(value).lower()
MatchingVariations(value_str, value_map) ==
    {k \in 1..Len(value_map) :
        \E j \in 1..Len(value_map[k]) : Lower(value_map[k][j]) = value_str}

\* _normalize_value: a falsy value gives '', a known variation gives the
\* standard value of its list, anything else gives str(value)
_normalize_value(v, value_map) ==
    IF Falsy(v) THEN Str(<<>>)
    ELSE LET hits == MatchingVariations(Lower(v.s), value_map)
         IN  IF hits # {} THEN Str(value_map[Min(hits)][1]) ELSE Str(v.s)

\* the mappings whose patterns match, by table position
MatchingMappings(normalized_id) ==
    {k \in 1..Len(field_mappings) : _matches_pattern(normalized_id, field_mappings[k].patterns)}

\* the body of the loop for the first matching mapping
MappedValue(mapping, v) ==
    IF mapping.computed THEN Str(<<>>)      \* full_name of a profile without names
    ELSE LET formatted ==
                 CASE mapping.format_func = "_format_phone" -> _format_phone(v)
                   [] mapping.format_func = "_format_salary" -> _format_salary(v)
                   [] OTHER -> v
         IN  IF formatted.t = "TypeError" THEN formatted
             ELSE IF mapping.value_map # <<>>
                  THEN _normalize_value(formatted, mapping.value_map)
                  ELSE formatted

\* the identifiers asked for
FieldIdentifiers ==
    { <<"P", "h", "o", "n", "e">>,
      <<"S", "a", "l", "a", "r", "y", " ", "E", "x", "p", "e", "c", "t", "a", "t", "i", "o", "n">>,
      <<"W", "o", "r", "k", " ", "A", "u", "t", "h", "o", "r", "i", "z", "a", "t", "i", "o", "n">>,
      <<"r", "e", "q", "u", "i", "r", "e", "_", "s", "p", "o", "n", "s", "o", "r", "s", "h", "i", "p">>,
      <<"W", "i", "l", "l", "i", "n", "g", " ", "t", "o", " ", "r", "e", "l", "o", "c", "a", "t", "e", "?">>,
      <<"p", "r", "o", "n", "o", "u", "n", "s">> }

yes_words == {<<"y", "e", "s">>, <<"Y", "e", "s">>, <<"Y", "E", "S">>}
no_words == {<<"n", "o">>, <<"N", "o">>, <<"N", "O">>}

\* the digit strings a profile may hold
DigitStrings ==
    { <<"3", "1", "0", "5", "5", "5", "1", "2", "3", "4">>,
      <<"1", "3", "1", "0", "5", "5", "5", "1", "2", "3", "4">>,
      <<"1", "2", "0", "0", "0", "0">>,
      <<"7", "0", "0">>,
      <<"0", "7", "0", "0", "0">> }

\* what the profile may hold at a path: strings, the YAML booleans, numbers, nothing
StoredValues ==
    {Str(s) : s \in DigitStrings \cup yes_words \cup no_words}
        \cup {[t |-> "int", s |-> s] : s \in {d \in DigitStrings : Head(d) # "0"}}
        \cup { Str(<<"(", "3", "1", "0", ")", " ", "5", "5", "5", "-", "1", "2", "3", "4">>),
               Str(<<"$", "1", "2", "0", ",", "0", "0", "0">>),
               Str(<<"A", "u", "t", "h", "o", "r", "i", "z", "e", "d">>),
               Str(<<"n", "o", "t", " ", "s", "u", "r", "e">>),
               Str(<<>>),
               [t |-> "bool", s |-> <<"T", "r", "u", "e">>],
               [t |-> "bool", s |-> <<"F", "a", "l", "s", "e">>],
               NoneValue }

\* get_field_value up to the first matching mapping; without one the fuzzy match
\* of the identifier, whose keywords none of the identifiers holds
GetFieldValue ==
    /\ vpc = "call"
    /\ LET normalized_id == _normalize_field_identifier(field_identifier)
           hits == MatchingMappings(normalized_id)
       IN  field_value' = IF hits = {} THEN NoneValue
                    ELSE MappedValue(field_mappings[Min(hits)], stored)
    /\ vpc' = "returned"
    /\ UNCHANGED <<field_identifier, stored, notData>>

\* the caller reads the next field of the same profile
NextRead ==
    /\ vpc = "returned"
    /\ vpc' = "call"
    /\ field_value' = NoneValue
    /\ field_identifier' \in FieldIdentifiers
    /\ stored' = stored
    /\ UNCHANGED notData

dataIdle ==
    /\ vpc = "idle"
    /\ field_identifier = <<>>
    /\ stored = NoneValue
    /\ field_value = NoneValue

-----------------------------------------------------------------------------
(* A native <select>: ActionExecutor._select_option with                    *)
(* _fuzzy_match_option, and SmartFieldHandler._handle_select_field with     *)
(* _get_select_options, _find_best_option_match and _match_country.         *)

MaxCountries == 3

country_mappings ==
    << [country |-> <<"u", "n", "i", "t", "e", "d", " ", "s", "t", "a", "t", "e", "s">>,
        variants |-> {<<"u", "s", "a">>, <<"u", "s">>, <<"u", "n", "i", "t", "e", "d", " ", "s", "t", "a", "t", "e", "s">>, <<"u", "n", "i", "t", "e", "d", " ", "s", "t", "a", "t", "e", "s", " ", "o", "f", " ", "a", "m", "e", "r", "i", "c", "a">>, <<"a", "m", "e", "r", "i", "c", "a">>}],
       [country |-> <<"u", "s", "a">>,
        variants |-> {<<"u", "s", "a">>, <<"u", "s">>, <<"u", "n", "i", "t", "e", "d", " ", "s", "t", "a", "t", "e", "s">>, <<"u", "n", "i", "t", "e", "d", " ", "s", "t", "a", "t", "e", "s", " ", "o", "f", " ", "a", "m", "e", "r", "i", "c", "a">>}],
       [country |-> <<"u", "s">>,
        variants |-> {<<"u", "s", "a">>, <<"u", "s">>, <<"u", "n", "i", "t", "e", "d", " ", "s", "t", "a", "t", "e", "s">>, <<"u", "n", "i", "t", "e", "d", " ", "s", "t", "a", "t", "e", "s", " ", "o", "f", " ", "a", "m", "e", "r", "i", "c", "a">>}],
       [country |-> <<"u", "k">>,
        variants |-> {<<"u", "k">>, <<"u", "n", "i", "t", "e", "d", " ", "k", "i", "n", "g", "d", "o", "m">>, <<"g", "r", "e", "a", "t", " ", "b", "r", "i", "t", "a", "i", "n">>, <<"g", "b">>, <<"b", "r", "i", "t", "a", "i", "n">>}],
       [country |-> <<"c", "h", "i", "n", "a">>,
        variants |-> {<<"c", "h", "i", "n", "a">>, <<"c", "n">>, <<"p", "r", "c">>, <<"p", "e", "o", "p", "l", "e", "'", "s", " ", "r", "e", "p", "u", "b", "l", "i", "c", " ", "o", "f", " ", "c", "h", "i", "n", "a">>}],
       [country |-> <<"c", "a", "n", "a", "d", "a">>,
        variants |-> {<<"c", "a", "n", "a", "d", "a">>, <<"c", "a">>, <<"c", "a", "n">>}] >>
prompt_texts ==
    {<<"s", "e", "l", "e", "c", "t">>, <<"c", "h", "o", "o", "s", "e">>, <<"p", "l", "e", "a", "s", "e", " ", "s", "e", "l", "e", "c", "t">>, <<"-", "-", "s", "e", "l", "e", "c", "t", "-", "-">>, <<"s", "e", "l", "e", "c", "t", " ", "o", "n", "e">>}
United_States == <<"U", "n", "i", "t", "e", "d", " ", "S", "t", "a", "t", "e", "s">>
Canada == <<"C", "a", "n", "a", "d", "a">>
United_Kingdom == <<"U", "n", "i", "t", "e", "d", " ", "K", "i", "n", "g", "d", "o", "m">>
Australia == <<"A", "u", "s", "t", "r", "a", "l", "i", "a">>
CA_s == <<"C", "A">>
GB_s == <<"G", "B">>
AU_s == <<"A", "U">>
country_s == <<"c", "o", "u", "n", "t", "r", "y">>
location_s == <<"l", "o", "c", "a", "t", "i", "o", "n">>

UpperChar(c) ==
    CASE c = "a" -> "A" [] c = "b" -> "B" [] c = "c" -> "C" [] c = "d" -> "D"
      [] c = "e" -> "E" [] c = "f" -> "F" [] c = "g" -> "G" [] c = "h" -> "H"
      [] c = "i" -> "I" [] c = "j" -> "J" [] c = "k" -> "K" [] c = "l" -> "L"
      [] c = "m" -> "M" [] c = "n" -> "N" [] c = "o" -> "O" [] c = "p" -> "P"
      [] c = "q" -> "Q" [] c = "r" -> "R" [] c = "s" -> "S" [] c = "t" -> "T"
      [] c = "u" -> "U" [] c = "v" -> "V" [] c = "w" -> "W" [] c = "x" -> "X"
      [] c = "y" -> "Y" [] c = "z" -> "Z"
      [] OTHER -> c

Upper(s) == [i \in 1..Len(s) |-> UpperChar(s[i])]

\* the first characters of the words of text.split()
WordStarts(text) ==
    {i \in 1..Len(text) : ~IsSpace(text[i]) /\ (i = 1 \/ IsSpace(text[i - 1]))}

RECURSIVE Initials(_, _)
Initials(text, i) ==
    IF i > Len(text) THEN <<>>
    ELSE (IF i \in WordStarts(text) THEN <<UpperChar(text[i])>> ELSE <<>>)
            \o Initials(text, i + 1)

_get_abbreviation(text) ==
    IF Cardinality(WordStarts(text)) > 1 THEN Initials(text, 1)
    ELSE SubSeq(Upper(text), 1, Min({3, Len(text)}))

\* _get_select_options: the options kept, each with its DOM index
RECURSIVE _get_select_options(_, _)
_get_select_options(options, i) ==
    IF i > Len(options) THEN <<>>
    ELSE LET value == options[i].value
             text == Strip(options[i].text)
         IN  (IF (value = <<>> /\ text = <<>>) \/ Lower(text) \in prompt_texts
              THEN <<>>
              ELSE <<[index |-> i - 1, value |-> value, text |-> text,
                      text_lower |-> Lower(text), value_lower |-> Lower(value)]>>)
                 \o _get_select_options(options, i + 1)

InMappings(target_lower) ==
    \E k \in 1..Len(country_mappings) : country_mappings[k].country = target_lower

VariantsOf(target_lower) ==
    country_mappings[CHOOSE k \in 1..Len(country_mappings) :
                        country_mappings[k].country = target_lower].variants

\* the two checks _match_country makes on one option
CountryDirect(target_lower, option) ==
    /\ InMappings(target_lower)
    /\ \E variant \in VariantsOf(target_lower) :
          \/ Contains(variant, option.text_lower)
          \/ Contains(variant, option.value_lower)

CountryReverse(target_lower, option) ==
    \E k \in 1..Len(country_mappings) :
       /\ target_lower \in country_mappings[k].variants
       /\ \/ Contains(country_mappings[k].country, option.text_lower)
          \/ \E v \in country_mappings[k].variants : Contains(v, option.text_lower)

\* the first k for which P holds of options[k], 0 when there is none
FirstOption(options, P(_)) ==
    LET hits == {k \in 1..Len(options) : P(options[k])}
    IN  IF hits = {} THEN 0 ELSE Min(hits)

\* _match_country: the position, in the kept options, of the option returned
_match_country(target, options) ==
    LET target_lower == Lower(target)
        Hit(option) == CountryDirect(target_lower, option)
                          \/ CountryReverse(target_lower, option)
    IN  FirstOption(options, Hit)

RatMax(p, q) == IF RatGT(q, p) THEN q ELSE p

\* strategy 6: the first option of the highest similarity above 0.6
RECURSIVE MostSimilar(_, _, _, _, _)
MostSimilar(target_lower, options, k, best_option, best_similarity) ==
    IF k > Len(options) THEN best_option
    ELSE LET similarity == RatMax(Ratio(target_lower, options[k].text_lower),
                                  Ratio(target_lower, options[k].value_lower))
         IN  IF RatGT(similarity, best_similarity) /\ RatGT(similarity, <<6, 10>>)
             THEN MostSimilar(target_lower, options, k + 1, k, similarity)
             ELSE MostSimilar(target_lower, options, k + 1, best_option, best_similarity)

\* _find_best_option_match: the position, in the kept options, of the option
\* returned, 0 for None.  The state, year and degree rules are for fields of
\* other names than the two modelled here.
_find_best_option_match(target_value, options, name) ==
    LET target_lower == Strip(Lower(target_value))
        Exact(o) == o.value = target_value \/ o.text = target_value
        NoCase(o) == o.value_lower = target_lower \/ o.text_lower = target_lower
        Within(o) == \/ Contains(target_lower, o.text_lower)
                     \/ Contains(o.text_lower, target_lower)
                     \/ Contains(target_lower, o.value_lower)
                     \/ Contains(o.value_lower, target_lower)
        SameAbbr(o) == _get_abbreviation(target_value) = _get_abbreviation(o.text)
        NonEmpty(o) == o.value # <<>> /\ o.text # <<>>
        country_match == IF Contains(country_s, Lower(name))
                         THEN _match_country(target_value, options) ELSE 0
    IN  IF target_value = <<>> THEN 0
        ELSE IF FirstOption(options, Exact) # 0 THEN FirstOption(options, Exact)
        ELSE IF FirstOption(options, NoCase) # 0 THEN FirstOption(options, NoCase)
        ELSE IF country_match # 0 THEN country_match
        ELSE IF FirstOption(options, Within) # 0 THEN FirstOption(options, Within)
        ELSE IF FirstOption(options, SameAbbr) # 0 THEN FirstOption(options, SameAbbr)
        ELSE IF MostSimilar(target_lower, options, 1, 0, <<0, 1>>) # 0
             THEN MostSimilar(target_lower, options, 1, 0, <<0, 1>>)
        ELSE FirstOption(options, NonEmpty)

\* the countries a select offers: their names, and for the value attribute
\* either the name again or the two-letter code
Countries ==
    { [name |-> United_States, code |-> US_s], [name |-> Canada, code |-> CA_s],
      [name |-> United_Kingdom, code |-> GB_s], [name |-> Australia, code |-> AU_s] }

CountryOrders ==
    {s \in UNION {[1..n -> Countries] : n \in 1..MaxCountries} :
        \A i, j \in 1..Len(s) : i # j => s[i] # s[j]}

\* an empty placeholder first, then the countries in the order given
SelectOptions(order, coded) ==
    <<Opt(<<>>, <<>>, 0)>>
       \o [i \in 1..Len(order) |->
             Opt(IF coded THEN order[i].code ELSE order[i].name, order[i].name, i)]

DomOptionLists == {SelectOptions(order, coded) : order \in CountryOrders, coded \in BOOLEAN}

SelectTargets == {US_s, us_s}
FieldNames == {country_s, location_s}

\* ActionExecutor._select_option on the native select: the option
\* _fuzzy_match_option returns is selected; the three select_option calls that
\* follow address that same option
ExecutorSelect ==
    /\ epc = "select"
    /\ executor_selected' = _fuzzy_match_option(select_target, dom_options)
    /\ epc' = "done"
    /\ UNCHANGED <<hpc, dom_options, select_target, select_name, handler_selected, notSelect>>

\* SmartFieldHandler._handle_select_field on the same select
HandlerSelect ==
    /\ hpc = "select"
    /\ LET options == _get_select_options(dom_options, 1)
           best_match == IF options = <<>> THEN 0
                         ELSE _find_best_option_match(select_target, options, select_name)
       IN  handler_selected' = IF best_match = 0 THEN 0 ELSE options[best_match].index + 1
    /\ hpc' = "done"
    /\ UNCHANGED <<epc, dom_options, select_target, select_name, executor_selected, notSelect>>

selectIdle ==
    /\ epc = "idle"
    /\ hpc = "idle"
    /\ dom_options = <<>>
    /\ select_target = <<>>
    /\ select_name = <<>>
    /\ executor_selected = 0
    /\ handler_selected = 0

-----------------------------------------------------------------------------
(* ActionExecutor._click_radio, one radio of the loop at a time, on yes/no  *)
(* radio groups.                                                            *)

yes_authorized_l == <<"Y", "e", "s", ",", " ", "I", " ", "a", "m", " ", "a", "u", "t", "h", "o", "r", "i", "z", "e", "d">>
no_sponsorship_l == <<"N", "o", ",", " ", "I", " ", "r", "e", "q", "u", "i", "r", "e", " ", "s", "p", "o", "n", "s", "o", "r", "s", "h", "i", "p">>
no_not_authorized_l == <<"N", "o", ",", " ", "I", " ", "a", "m", " ", "n", "o", "t", " ", "a", "u", "t", "h", "o", "r", "i", "z", "e", "d">>
No_s == <<"N", "o">>

yes_class == {yes_s, <<"y">>, true_s, <<"1">>, authorized_s}
no_class == {no_s, <<"n">>, false_s, <<"0">>, not_authorized_s}

\* the yes/no groups: the pair of value attributes, the two labels, either order
YesNoValues == {<<yes_s, no_s>>, <<<<"1">>, <<"0">>>>, <<true_s, false_s>>}
YesLabels == {Yes_s, yes_authorized_l}
NoLabels == {No_s, no_sponsorship_l, no_not_authorized_l}
YesNoGroups ==
    UNION { { <<Radio(v[1], yl), Radio(v[2], nl)>>, <<Radio(v[2], nl), Radio(v[1], yl)>> } :
               v \in YesNoValues, yl \in YesLabels, nl \in NoLabels }
RadioTargets == {Yes_s, <<"y">>, authorized_s, No_s, <<"n">>}

NoRadioResult == [success |-> FALSE, actual_value |-> NoneV, error |-> None]

\* query_selector found no element, the radio has no name, or a page call raised
RadioLookupRaises ==
    /\ rpc = "lookup"
    /\ radio_result' = [radio_result EXCEPT !.error = "exception"]
    /\ rpc' = "done"
    /\ UNCHANGED <<radio_group, radio_target, radio_i, radio_checked, radio_clicked, notRadio>>

\* query_selector_all returned the radios of the name
RadioLookup ==
    /\ rpc = "lookup"
    /\ rpc' = "loop"
    /\ radio_i' = 1
    /\ UNCHANGED <<radio_group, radio_target, radio_checked, radio_clicked, radio_result, notRadio>>

\* one pass of `for radio in radios`: a radio that matches is clicked, and the
\* loop returns when is_checked() says the click took
RadioIteration ==
    /\ rpc = "loop"
    /\ radio_i <= Len(radio_group)
    /\ LET radio == radio_group[radio_i]
       IN  IF _match_radio_value(radio_target, radio.value, radio.label)
           THEN /\ radio_clicked' = Append(radio_clicked, radio_i)
                /\ \E is_checked \in BOOLEAN :
                      IF is_checked
                      THEN /\ radio_checked' = radio_i
                           /\ radio_result' =
                                 [radio_result EXCEPT !.success = TRUE,
                                     !.actual_value = IF radio.value # <<>>
                                                      THEN radio.value ELSE radio.label]
                           /\ rpc' = "done"
                           /\ UNCHANGED radio_i
                      ELSE /\ radio_i' = radio_i + 1
                           /\ UNCHANGED <<rpc, radio_checked, radio_result>>
           ELSE /\ radio_i' = radio_i + 1
                /\ UNCHANGED <<rpc, radio_checked, radio_clicked, radio_result>>
    /\ UNCHANGED <<radio_group, radio_target, notRadio>>

\* the loop ended without a checked radio
RadioNotFound ==
    /\ rpc = "loop"
    /\ radio_i > Len(radio_group)
    /\ radio_result' = [radio_result EXCEPT !.error = "no matching radio"]
    /\ rpc' = "done"
    /\ UNCHANGED <<radio_group, radio_target, radio_i, radio_checked, radio_clicked, notRadio>>

radioIdle ==
    /\ rpc = "idle"
    /\ radio_group = <<>>
    /\ radio_target = <<>>
    /\ radio_i = 0
    /\ radio_checked = 0
    /\ radio_clicked = <<>>
    /\ radio_result = NoRadioResult

-----------------------------------------------------------------------------
(* ActionExecutor._fill_text called from execute_action: every pass of the  *)
(* retry loop and every wait of the except handler is a step.               *)

TextValues == {<<>>, us_s, Yes_s}

NewTextResult == [success |-> FALSE, actual_value |-> NoneV, error |-> None, retries |-> 0]

\* where the loop goes after pass r ended without a return
NextPass(r) == IF r + 1 < max_retries THEN "attempt" ELSE "returned"

\* one pass of `for retry in range(self.max_retries)` up to the return, the
\* mismatch branch or the entry of the except handler
TextAttempt ==
    /\ tpc = "attempt"
    /\ text_retry < max_retries
    /\ \/ \* a page call raised, or the element is a hidden input and the call
          \* of the undefined _fill_hidden_field raised
          /\ text_result' = [text_result EXCEPT !.error = "exception"]
          /\ text_log' = Append(text_log, "exception")
          /\ tpc' = "except"
          /\ UNCHANGED <<text_retry, text_elem>>
       \/ \* a visible element: fill, blur, Tab, wait 100 ms, read back
          \E actual_value \in ReadValues :
             /\ text_elem' = actual_value
             /\ IF actual_value = text_value
                THEN /\ text_result' = [text_result EXCEPT !.success = TRUE,
                                                          !.actual_value = actual_value]
                     /\ text_log' = Append(text_log, "match")
                     /\ tpc' = "returned"
                     /\ UNCHANGED text_retry
                ELSE /\ text_result' = [text_result EXCEPT !.retries = text_retry + 1]
                     /\ text_log' = Append(text_log, "mismatch")
                     /\ tpc' = NextPass(text_retry)
                     /\ text_retry' = text_retry + 1
    /\ UNCHANGED <<text_value, notText>>

\* the except handler: `await self.page.wait_for_timeout(500)`
TextBackoff ==
    /\ tpc = "except"
    /\ \/ /\ text_log' = Append(text_log, "wait")
          /\ tpc' = NextPass(text_retry)
          /\ text_retry' = text_retry + 1
          /\ UNCHANGED text_result
       \/ \* the wait raised: execute_action's handler records it and returns
          /\ text_result' = [text_result EXCEPT !.error = "exception"]
          /\ tpc' = "returned"
          /\ UNCHANGED <<text_retry, text_log>>
    /\ UNCHANGED <<text_value, text_elem, notText>>

textIdle ==
    /\ tpc = "idle"
    /\ text_value = <<>>
    /\ text_retry = 0
    /\ text_elem = NoneV
    /\ text_result = NewTextResult
    /\ text_log = <<>>

-----------------------------------------------------------------------------
(* SmartFormFiller.analyze_and_match_fields and _analyze_fields_in_chunks.  *)
(* A dict of mappings is a function from the selectors it holds.            *)

MaxFields == 41
chunk_threshold == 30
chunk_size == 20

\* what _analyze_fields_batch can return: the LLM names the selectors, so a
\* batch may map a selector another batch mapped too
MappedSelectors == {"#a", "#b"}
MappedValues == {"v1", "v2"}
BatchResults == UNION {[S -> MappedValues] : S \in SUBSET MappedSelectors}
EmptyDict == [s \in {} |-> "v1"]

\* dict.update: the keys of `new` are set to new's values
update(old, new) ==
    [s \in DOMAIN old \cup DOMAIN new |-> IF s \in DOMAIN new THEN new[s] ELSE old[s]]

\* form_fields[i:i + chunk_size], i counted from 0
Chunk(fields, i) == SubSeq(fields, i + 1, Min({i + chunk_size, Len(fields)}))

\* analyze_and_match_fields: a form of at most 30 fields is one batch
AnalyzeAndMatchFields ==
    /\ cpc = "call"
    /\ IF Len(form_fields) > chunk_threshold
       THEN /\ cpc' = "chunks"
            /\ UNCHANGED <<sent_batches, batch_mappings, all_mappings>>
       ELSE \E mappings \in BatchResults :
               /\ sent_batches' = <<form_fields>>
               /\ batch_mappings' = <<mappings>>
               /\ all_mappings' = mappings
               /\ cpc' = "returned"
    /\ UNCHANGED <<form_fields, chunk_start, notChunk>>

\* one pass of `for i in range(0, len(form_fields), chunk_size)`
AnalyzeChunk ==
    /\ cpc = "chunks"
    /\ chunk_start < Len(form_fields)
    /\ \E chunk_mappings \in BatchResults :
          /\ sent_batches' = Append(sent_batches, Chunk(form_fields, chunk_start))
          /\ batch_mappings' = Append(batch_mappings, chunk_mappings)
          /\ all_mappings' = update(all_mappings, chunk_mappings)
    /\ chunk_start' = chunk_start + chunk_size
    /\ UNCHANGED <<cpc, form_fields, notChunk>>

\* `return all_mappings`
ReturnAllMappings ==
    /\ cpc = "chunks"
    /\ chunk_start >= Len(form_fields)
    /\ cpc' = "returned"
    /\ UNCHANGED <<form_fields, chunk_start, sent_batches, batch_mappings, all_mappings, notChunk>>

chunkIdle ==
    /\ cpc = "idle"
    /\ form_fields = <<>>
    /\ chunk_start = 0
    /\ sent_batches = <<>>
    /\ batch_mappings = <<>>
    /\ all_mappings = EmptyDict

-----------------------------------------------------------------------------
(* FieldLearningSystem._extract_field_features and _generate_field_key.     *)

MaxRuns == 2

\* \w after str.lower(), on ASCII text
IsWordChar(c) == IsAlnum(c) \/ c = "_"

\* re.findall(r'\w+', s): the maximal runs of word characters, in order
WordRun(s, i) ==
    LET ends == {j \in i..Len(s) : \A k \in i..j : IsWordChar(s[k])}
    IN  SubSeq(s, i, Max(ends))

RECURSIVE FindWords(_, _)
FindWords(s, i) ==
    IF i > Len(s) THEN <<>>
    ELSE IF IsWordChar(s[i]) /\ (i = 1 \/ ~IsWordChar(s[i - 1]))
         THEN <<WordRun(s, i)>> \o FindWords(s, i + 1)
         ELSE FindWords(s, i + 1)

Range(f) == {f[k] : k \in DOMAIN f}

\* list(set(words)): the distinct words in an order the interpreter chooses;
\* the order of a set of strings follows their hashes, which are salted per
\* process, so every order is possible in a run
ListsOfSet(S) ==
    {f \in [1..Cardinality(S) -> S] : \A i, j \in 1..Cardinality(S) : i # j => f[i] # f[j]}

\* the features _extract_field_features returns, for one order of the patterns
FieldFeatures(info, patterns) ==
    [label |-> Lower(info.label), id |-> Lower(info.id),
     placeholder |-> Lower(info.placeholder), aria_label |-> Lower(info.ariaLabel),
     patterns |-> patterns]

PatternWords(info) ==
    Range(FindWords(Lower(info.label), 1)) \cup Range(FindWords(Lower(info.placeholder), 1))
       \cup Range(FindWords(Lower(info.ariaLabel), 1))

_extract_field_features(info) ==
    {FieldFeatures(info, patterns) : patterns \in ListsOfSet(PatternWords(info))}

\* '_'.join(words)
RECURSIVE JoinUnderscore(_)
JoinUnderscore(words) ==
    IF words = <<>> THEN <<>>
    ELSE IF Len(words) = 1 THEN words[1]
    ELSE words[1] \o <<"_">> \o JoinUnderscore(Tail(words))

\* re.sub(r'[^a-z0-9_]', '_', s)
ReplaceOthers(s) == [i \in 1..Len(s) |-> IF IsWordChar(s[i]) THEN s[i] ELSE "_"]

\* re.sub(r'_+', '_', s)
RECURSIVE CollapseUnderscores(_)
CollapseUnderscores(s) ==
    IF s = <<>> THEN <<>>
    ELSE IF Head(s) = "_" /\ Len(s) > 1 /\ s[2] = "_" THEN CollapseUnderscores(Tail(s))
    ELSE <<Head(s)>> \o CollapseUnderscores(Tail(s))

\* str.strip('_')
StripUnderscores(s) ==
    LET idx == {i \in 1..Len(s) : s[i] # "_"}
    IN  IF idx = {} THEN <<>> ELSE SubSeq(s, Min(idx), Max(idx))

_generate_field_key(field_features) ==
    LET key == IF field_features.label # <<>> THEN field_features.label
               ELSE IF field_features.placeholder # <<>> THEN field_features.placeholder
               ELSE IF field_features.id # <<>> THEN field_features.id
               ELSE JoinUnderscore(SubSeq(field_features.patterns, 1,
                                          Min({3, Len(field_features.patterns)})))
    IN  StripUnderscores(CollapseUnderscores(ReplaceOthers(Lower(key))))

LabelInputs ==
    {<<>>,
     <<"F", "i", "r", "s", "t", " ", "N", "a", "m", "e">>,
     <<"E", "-", "m", "a", "i", "l", " ", "*">>,
     <<"?", "?", "?">>,
     <<"f", "i", "r", "s", "t", "_", "n", "a", "m", "e">>}
PlaceholderInputs ==
    {<<>>,
     <<"Y", "o", "u", "r", " ", "n", "a", "m", "e">>,
     <<".", ".", ".">>}
IdInputs ==
    {<<>>,
     <<"f", "l", "d", "_", "1">>}
AriaLabelInputs ==
    {<<>>,
     <<"P", "h", "o", "n", "e", " ", "n", "u", "m", "b", "e", "r">>,
     <<"Y", "o", "u", "r", " ", "m", "o", "b", "i", "l", "e", " ", "p", "h", "o", "n", "e", " ", "n", "u", "m", "b", "e", "r">>}

FieldInfos ==
    [label : LabelInputs, placeholder : PlaceholderInputs, id : IdInputs,
     ariaLabel : AriaLabelInputs]

\* one run of the program derives the key of the field
GenerateFieldKey ==
    /\ kpc = "run"
    /\ Len(field_keys) < MaxRuns
    /\ \E field_features \in _extract_field_features(field_info) :
          field_keys' = Append(field_keys, _generate_field_key(field_features))
    /\ UNCHANGED <<kpc, field_info, notKey>>

keyIdle ==
    /\ kpc = "idle"
    /\ field_info = [label |-> <<>>, placeholder |-> <<>>, id |-> <<>>, ariaLabel |-> <<>>]
    /\ field_keys = <<>>

-----------------------------------------------------------------------------
(* ActionExecutor._handle_custom_dropdown: the trigger's click, the search  *)
(* for the option, the read-back and the Escape of the failure branch.      *)

\* the except handler of _handle_custom_dropdown, and the return
DropdownRaised(res) == [res EXCEPT !.error = "exception"]

\* wait_for_selector, scroll_into_view_if_needed, trigger.click(), wait 300 ms
DropdownOpenTrigger ==
    /\ ddpc = "open"
    /\ \/ \* the trigger is not found, or a call before the click raised
          /\ dd_result' = DropdownRaised(dd_result)
          /\ ddpc' = "returned"
          /\ UNCHANGED <<dd_open, dd_clicked>>
       \/ \* the click opened the list
          /\ dd_open' = TRUE
          /\ dd_clicked' = TRUE
          /\ \/ /\ ddpc' = "options"
                /\ UNCHANGED dd_result
             \/ \* the wait after the click raised
                /\ dd_result' = DropdownRaised(dd_result)
                /\ ddpc' = "returned"
    /\ UNCHANGED <<dd_value, dd_escape, notDd>>

\* the loop over option_selectors, then the fuzzy match of the visible options;
\* a click on an option closes the list or, in a multi-select, leaves it open
DropdownFindOption ==
    /\ ddpc = "options"
    /\ \/ \* an option selector matched and its option was clicked
          /\ \E stays_open \in BOOLEAN : dd_open' = stays_open
          /\ ddpc' = "read"
          /\ UNCHANGED dd_result
       \/ \* no selector matched (a raise inside the loop is swallowed)
          \E all_options \in TextLists :
             LET best_match == _fuzzy_match_text(dd_value, all_options)
             IN  IF best_match # 0
                 THEN \/ \* page.click on the text of the best match
                         /\ \E stays_open \in BOOLEAN : dd_open' = stays_open
                         /\ ddpc' = "read"
                         /\ UNCHANGED dd_result
                      \/ \* page.click raised
                         /\ dd_result' = DropdownRaised(dd_result)
                         /\ ddpc' = "returned"
                         /\ UNCHANGED dd_open
                 ELSE /\ ddpc' = "escape"
                      /\ UNCHANGED <<dd_open, dd_result>>
    /\ UNCHANGED <<dd_value, dd_clicked, dd_escape, notDd>>

\* option_found: wait 200 ms and read the trigger's text back
DropdownReadBack ==
    /\ ddpc = "read"
    /\ \/ \E actual_value \in ReadValues :
             dd_result' = [dd_result EXCEPT !.success = TRUE,
                                            !.actual_value = Strip(actual_value)]
       \/ \* the wait or the evaluate raised
          dd_result' = DropdownRaised(dd_result)
    /\ ddpc' = "returned"
    /\ UNCHANGED <<dd_value, dd_open, dd_clicked, dd_escape, notDd>>

\* not option_found: keyboard.press('Escape') closes the list
DropdownPressEscape ==
    /\ ddpc = "escape"
    /\ \/ /\ dd_escape' = TRUE
          /\ dd_open' = FALSE
          /\ dd_result' = [dd_result EXCEPT !.error = "no matching option"]
       \/ \* the key press raised
          /\ dd_result' = DropdownRaised(dd_result)
          /\ UNCHANGED <<dd_escape, dd_open>>
    /\ ddpc' = "returned"
    /\ UNCHANGED <<dd_value, dd_clicked, notDd>>

ddIdle ==
    /\ ddpc = "idle"
    /\ dd_value = <<>>
    /\ dd_open = FALSE
    /\ dd_clicked = FALSE
    /\ dd_escape = FALSE
    /\ dd_result = NewTextResult

-----------------------------------------------------------------------------
(* FieldValidator.validate_field: the listeners it attaches in the page,    *)
(* the window flags they raise, and the three ways it returns.              *)

MaxValidations == 3

\* the elements of the page, and a selector that matches none
PageElements == {"#a", "#b"}
ValidatedSelectors == PageElements \cup {"#gone"}

ValidationResult(is_valid, error) == [is_valid |-> is_valid, error |-> error]

\* the `except Exception` branch: the failure is recorded, False is returned
ValidationError(results) == Append(results, ValidationResult(FALSE, "exception"))

\* the two page.evaluate calls at the top: addEventListener for change and
\* blur on the element, then a blur and a change event dispatched on it
AttachAndDispatch ==
    /\ vfpc = "ready"
    /\ Len(validation_results) < MaxValidations
    /\ \E selector \in ValidatedSelectors :
          /\ vselector' = selector
          /\ \/ \* the first evaluate raised
                /\ validation_results' = ValidationError(validation_results)
                /\ vfpc' = "ready"
                /\ UNCHANGED <<listeners, fieldChanged, fieldBlurred>>
             \/ \* the listeners are attached, the second evaluate raised
                /\ listeners' = IF selector \in PageElements
                                THEN [listeners EXCEPT ![selector] = @ + 1] ELSE listeners
                /\ validation_results' = ValidationError(validation_results)
                /\ vfpc' = "ready"
                /\ UNCHANGED <<fieldChanged, fieldBlurred>>
             \/ \* both ran: the listeners of the element raise the two flags
                /\ listeners' = IF selector \in PageElements
                                THEN [listeners EXCEPT ![selector] = @ + 1] ELSE listeners
                /\ fieldBlurred' = (fieldBlurred \/ selector \in PageElements)
                /\ fieldChanged' = (fieldChanged \/ selector \in PageElements)
                /\ vfpc' = "wait"
                /\ UNCHANGED validation_results
    /\ UNCHANGED <<stale_flag_seen, notVal>>

\* wait_for_function("window.__fieldChanged || window.__fieldBlurred")
WaitForEvent ==
    /\ vfpc = "wait"
    /\ IF fieldChanged \/ fieldBlurred
       THEN /\ vfpc' = "read"
            /\ stale_flag_seen' = (stale_flag_seen \/ vselector \notin PageElements)
            /\ UNCHANGED validation_results
       ELSE \* TimeoutError
            /\ validation_results' =
                  Append(validation_results, ValidationResult(FALSE, "timeout"))
            /\ vfpc' = "ready"
            /\ UNCHANGED stale_flag_seen
    /\ UNCHANGED <<vselector, listeners, fieldChanged, fieldBlurred, notVal>>

\* the read of the current value, the record, the reset of the flags, the return
ReadAndRecord ==
    /\ vfpc = "read"
    /\ \/ \* the read raised
          /\ validation_results' = ValidationError(validation_results)
          /\ UNCHANGED <<fieldChanged, fieldBlurred>>
       \/ \E is_valid \in BOOLEAN :
             /\ validation_results' =
                   Append(validation_results,
                          ValidationResult(is_valid /\ vselector \in PageElements, None))
             /\ fieldChanged' = FALSE
             /\ fieldBlurred' = FALSE
       \/ \* the result is recorded, then the evaluate that resets the flags raised
          \E is_valid \in BOOLEAN :
             /\ validation_results' =
                   ValidationError(Append(validation_results,
                          ValidationResult(is_valid /\ vselector \in PageElements, None)))
             /\ UNCHANGED <<fieldChanged, fieldBlurred>>
    /\ vfpc' = "ready"
    /\ UNCHANGED <<vselector, listeners, stale_flag_seen, notVal>>

valIdle ==
    /\ vfpc = "idle"
    /\ vselector = "#a"
    /\ listeners = [e \in PageElements |-> 0]
    /\ fieldChanged = FALSE
    /\ fieldBlurred = FALSE
    /\ stale_flag_seen = FALSE
    /\ validation_results = <<>>

-----------------------------------------------------------------------------
(* ProFormFiller._fallback_analysis on the fields of a contact section.     *)

FallbackElements ==
    { Element(<<"F", "i", "r", "s", "t", " ", "N", "a", "m", "e">>, <<>>, <<"f", "n">>),
      Element(<<"L", "a", "s", "t", " ", "N", "a", "m", "e">>, <<>>, <<"l", "n">>),
      Element(<<"E", "m", "a", "i", "l">>, <<>>, <<"e", "m">>),
      Element(<<"P", "h", "o", "n", "e">>, <<"p", "h">>, <<>>),
      Element(<<"S", "u", "r", "n", "a", "m", "e">>, <<"l", "a", "s", "t">>, <<>>) }
Ann == <<"A", "n", "n">>
Lee == <<"L", "e", "e">>
ann_mail == <<"a", "@", "l", ".", "i", "o">>
ann_phone == <<"5", "5", "5", "1", "2", "3", "4">>

FallbackGroups == UNION {[1..n -> FallbackElements] : n \in 0..MaxElements}

\* profiles with top-level keys: all four contact fields, and without one of
\* the names
FallbackProfiles ==
    { Profile(Ann, Lee, ann_mail, ann_phone, <<>>, <<>>),
      Profile(<<>>, Lee, ann_mail, ann_phone, <<>>, <<>>),
      Profile(Ann, <<>>, ann_mail, <<>>, <<>>, <<>>) }

RunFallbackAnalysis ==
    /\ fbpc = "call"
    /\ fb_actions' = _fallback_analysis(fb_group, fb_data)
    /\ fbpc' = "returned"
    /\ UNCHANGED <<fb_group, fb_data, notFb>>

fbIdle ==
    /\ fbpc = "idle"
    /\ fb_group = <<>>
    /\ fb_data = Profile(<<>>, <<>>, <<>>, <<>>, <<>>, <<>>)
    /\ fb_actions = <<>>

-----------------------------------------------------------------------------
(* FieldLearningSystem.learn_field_mapping with the semantic analysis it is   *)
(* handed: _analyze_field_semantics returns the response of _make_request as  *)
(* it is, and that response may lack semantic_type or suggested_data_path     *)
(* (the default error object of GPTService has neither).  One instance over   *)
(* its own file; a key read from the analysis that is not there raises        *)
(* KeyError at the statement that reads it.                                   *)

MaxLearnCalls == 3      \* learn_field_mapping calls in one run

\* the analyses _analyze_field_semantics returns: the rule-based fallback's, and
\* LLM responses lacking one key or both
SemanticAnalyses ==
    {[semantic_type |-> "custom_field", suggested_data_path |-> "custom.unknown"],
     [semantic_type |-> "custom_field", suggested_data_path |-> Missing],
     [semantic_type |-> Missing, suggested_data_path |-> "custom.unknown"],
     [semantic_type |-> Missing, suggested_data_path |-> Missing]}

\* the dict literal of a new entry reads both keys before anything is stored
NewEntryRaises(semantic_analysis) ==
    \/ semantic_analysis.semantic_type = Missing
    \/ semantic_analysis.suggested_data_path = Missing

\* the dict literal of the return value reads semantic_type alone
ReturnRaises(semantic_analysis) == semantic_analysis.semantic_type = Missing

EmptyKnowledgeBase == [field_mappings |-> EmptyMappings, learning_history |-> <<>>]

\* learn_field_mapping(field_info, user_value, context) where the analysis is
\* semantic_analysis; _save_knowledge_base logs a failed write and returns
LearnWithAnalysis(field, user_value, semantic_analysis) ==
    /\ sem_calls < MaxLearnCalls
    /\ sem_calls' = sem_calls + 1
    /\ LET field_key == field.key
           is_new == ~sem_mappings[field_key].present
       IN  IF is_new /\ NewEntryRaises(semantic_analysis)
           THEN /\ sem_raised' = TRUE
                /\ UNCHANGED <<sem_mappings, sem_history, sem_file>>
           ELSE LET mapping == IF is_new
                               THEN [NewMapping(field) EXCEPT
                                        !.semantic_type = semantic_analysis.semantic_type]
                               ELSE sem_mappings[field_key]
                    example == [value |-> user_value, session |-> 1,
                                serial |-> sem_calls + 1]
                    examples == Append(mapping.examples, example)
                    updated == [mapping EXCEPT !.examples = examples,
                                               !.confidence = _update_confidence(examples)]
                    entry == [field_key |-> field_key, value |-> user_value,
                              semantic_analysis |-> semantic_analysis]
                IN  /\ sem_mappings' = [sem_mappings EXCEPT ![field_key] = updated]
                    /\ sem_history' = Append(sem_history, entry)
                    /\ \/ sem_file' = [field_mappings |-> sem_mappings',
                                       learning_history |-> sem_history']
                       \/ UNCHANGED sem_file
                    /\ sem_raised' = ReturnRaises(semantic_analysis)
    /\ UNCHANGED notSem

semIdle ==
    /\ sem_calls = 0
    /\ sem_mappings = EmptyMappings
    /\ sem_history = <<>>
    /\ sem_file = EmptyKnowledgeBase
    /\ sem_raised = FALSE

-----------------------------------------------------------------------------
(* Specifications.                                                          *)

InitExec ==
    /\ action \in ActionInputs
    /\ result = EmptyResult
    /\ pc = "call"
    /\ retry = 0
    /\ elemValue = NoneV
    /\ readBack = FALSE
    /\ fillIdle
    /\ submitIdle
    /\ pageIdle
    /\ decideIdle
    /\ parseIdle
    /\ mapIdle
    /\ groupIdle
    /\ learnIdle
    /\ dataIdle
    /\ selectIdle
    /\ radioIdle
    /\ textIdle
    /\ chunkIdle
    /\ keyIdle
    /\ ddIdle
    /\ valIdle
    /\ fbIdle
    /\ semIdle

NextExec ==
    \/ ExecuteAction
    \/ FillTextAttempt
    \/ SelectOption
    \/ HandleCustomDropdown
    \/ ClickRadio
    \/ ClickCheckbox
    \/ UploadFile
    \/ FillDate

SpecExec == InitExec /\ [][NextExec]_vars

InitFill ==
    /\ fpc = "snapshot"
    /\ element_groups \in 0..MaxGroups
    /\ all_actions = <<>>
    /\ groupIdx = 1
    /\ actIdx = 1
    /\ inFlight = 0
    /\ execLog = <<>>
    /\ fresult = EmptyFillResult
    /\ execIdle
    /\ submitIdle
    /\ pageIdle
    /\ decideIdle
    /\ parseIdle
    /\ mapIdle
    /\ groupIdle
    /\ learnIdle
    /\ dataIdle
    /\ selectIdle
    /\ radioIdle
    /\ textIdle
    /\ chunkIdle
    /\ keyIdle
    /\ ddIdle
    /\ valIdle
    /\ fbIdle
    /\ semIdle

NextFill ==
    \/ Snapshot
    \/ AnalyzeGroup
    \/ AnalyzeRaises
    \/ MappingDone
    \/ StartAction
    \/ ReturnAction
    \/ Finish

SpecFill == InitFill /\ [][NextFill]_vars

\* the flows of src/ take no submit flag or pass False; the orchestrator's flag is
\* an input of the page boundary
InitSubmit ==
    /\ flow \in {"rippling", "greenhouse_test", "workflow"}
    /\ spc = IF flow = "rippling" THEN "analyze" ELSE "fill"
    /\ submit \in (IF flow = "workflow" THEN BOOLEAN ELSE {FALSE})
    /\ hasForm \in (IF flow = "rippling" THEN BOOLEAN ELSE {TRUE})
    /\ submitButtons \in SUBSET (1..NumSubmitSelectors)
    /\ selIdx = 1
    /\ fillOk = FALSE
    /\ located = FALSE
    /\ ctaHops = 0
    /\ submitClicks = 0
    /\ execIdle
    /\ fillIdle
    /\ pageIdle
    /\ decideIdle
    /\ parseIdle
    /\ mapIdle
    /\ groupIdle
    /\ learnIdle
    /\ dataIdle
    /\ selectIdle
    /\ radioIdle
    /\ textIdle
    /\ chunkIdle
    /\ keyIdle
    /\ ddIdle
    /\ valIdle
    /\ fbIdle
    /\ semIdle

NextSubmit ==
    \/ RipplingAnalyze
    \/ RipplingFill
    \/ RipplingSubmitForm
    \/ GreenhouseFill
    \/ GreenhouseSubmit
    \/ WorkflowFill
    \/ WorkflowSubmit

SpecSubmit == InitSubmit /\ [][NextSubmit]_vars

InitPage ==
    /\ apc = "validate"
    /\ raw_response \in RawResponses
    /\ fixed_response = _get_default_error_response
    /\ analysis = NoAnalysis
    /\ execIdle
    /\ fillIdle
    /\ submitIdle
    /\ decideIdle
    /\ parseIdle
    /\ mapIdle
    /\ groupIdle
    /\ learnIdle
    /\ dataIdle
    /\ selectIdle
    /\ radioIdle
    /\ textIdle
    /\ chunkIdle
    /\ keyIdle
    /\ ddIdle
    /\ valIdle
    /\ fbIdle
    /\ semIdle

NextPage ==
    \/ ValidateResponse
    \/ FixPageAnalysisErrors
    \/ ValidateFixed

SpecPage == InitPage /\ [][NextPage]_vars

InitDecide ==
    /\ dpc = "analyze_page"
    /\ gpt_response \in GptResponses
    /\ analysis_result = DefaultAnalysisResult
    /\ recommended_action = DefaultRecommendedAction
    /\ min_confidence \in {60, 80}
    /\ proceed = FALSE
    /\ execIdle
    /\ fillIdle
    /\ submitIdle
    /\ pageIdle
    /\ parseIdle
    /\ mapIdle
    /\ groupIdle
    /\ learnIdle
    /\ dataIdle
    /\ selectIdle
    /\ radioIdle
    /\ textIdle
    /\ chunkIdle
    /\ keyIdle
    /\ ddIdle
    /\ valIdle
    /\ fbIdle
    /\ semIdle

NextDecide ==
    \/ AnalyzePage
    \/ GetRecommendedAction
    \/ ShouldProceedWithAction

SpecDecide == InitDecide /\ [][NextDecide]_vars

\* a reply spells an object, fenced or not, or is junk, or is a bare JSON string
InitParse ==
    /\ ppc = "loads"
    /\ \/ \E v \in StrValues, w \in StrValues, trailing \in BOOLEAN,
             pretty \in BOOLEAN, fenced \in BOOLEAN :
             /\ intended = ObjectOf(v, w)
             /\ content = IF fenced THEN Fenced(Render(v, w, trailing, pretty))
                          ELSE Render(v, w, trailing, pretty)
       \/ /\ intended = NoObject
          /\ content \in JunkReplies
       \/ /\ intended = StringOf(<<"a">>)
          /\ content = Lit(<<"a">>)
    /\ json_str = <<>>
    /\ parsed = NoObject
    /\ execIdle
    /\ fillIdle
    /\ submitIdle
    /\ pageIdle
    /\ decideIdle
    /\ mapIdle
    /\ groupIdle
    /\ learnIdle
    /\ dataIdle
    /\ selectIdle
    /\ radioIdle
    /\ textIdle
    /\ chunkIdle
    /\ keyIdle
    /\ ddIdle
    /\ valIdle
    /\ fbIdle
    /\ semIdle

NextParse ==
    \/ LoadsDirect
    \/ ExtractJson
    \/ CleanAndLoad

SpecParse == InitParse /\ [][NextParse]_vars

InitMap ==
    /\ mpc = "call"
    /\ llm \in LlmResponses
    /\ group \in ElementLists
    /\ personal_data \in Profiles
    /\ mapped = <<>>
    /\ execIdle
    /\ fillIdle
    /\ submitIdle
    /\ pageIdle
    /\ decideIdle
    /\ parseIdle
    /\ groupIdle
    /\ learnIdle
    /\ dataIdle
    /\ selectIdle
    /\ radioIdle
    /\ textIdle
    /\ chunkIdle
    /\ keyIdle
    /\ ddIdle
    /\ valIdle
    /\ fbIdle
    /\ semIdle

NextMap ==
    \/ LlmAnswers
    \/ ValidateActions
    \/ FallbackAnalysis

SpecMap == InitMap /\ [][NextMap]_vars

InitGroup ==
    /\ gpc = "group"
    /\ elements \in ElementInputs
    /\ max_group_size \in 1..MaxGroupSize
    /\ groups = <<>>
    /\ grouped = <<>>
    /\ execIdle
    /\ fillIdle
    /\ submitIdle
    /\ pageIdle
    /\ decideIdle
    /\ parseIdle
    /\ mapIdle
    /\ learnIdle
    /\ dataIdle
    /\ selectIdle
    /\ radioIdle
    /\ textIdle
    /\ chunkIdle
    /\ keyIdle
    /\ ddIdle
    /\ valIdle
    /\ fbIdle
    /\ semIdle

NextGroup ==
    \/ GroupByLogic
    \/ SplitLargeGroups

SpecGroup == InitGroup /\ [][NextGroup]_vars

InitLearn ==
    /\ lpc = [s \in Sessions |-> "new"]
    /\ knowledge_base = [s \in Sessions |-> EmptyMappings]
    /\ kb_file = EmptyMappings
    /\ recorded = {}
    /\ handed = [s \in Sessions |-> None]
    /\ export_data = NoExport
    /\ imported = NotImported
    /\ execIdle
    /\ fillIdle
    /\ submitIdle
    /\ pageIdle
    /\ decideIdle
    /\ parseIdle
    /\ mapIdle
    /\ groupIdle
    /\ dataIdle
    /\ selectIdle
    /\ radioIdle
    /\ textIdle
    /\ chunkIdle
    /\ keyIdle
    /\ ddIdle
    /\ valIdle
    /\ fbIdle
    /\ semIdle

NextLearn ==
    \/ \E s \in Sessions : Construct(s)
    \/ \E s \in Sessions, field \in LearnFields, user_value \in UserValues :
          LearnFieldMapping(s, field, user_value)
    \/ \E s \in Sessions, field \in LearnFields : GetLearnedMapping(s, field)
    \/ \E s \in Sessions : MutateHandedMapping(s)
    \/ \E s \in Sessions : ExportKnowledge(s)
    \/ ImportExported

SpecLearn == InitLearn /\ [][NextLearn]_vars

InitData ==
    /\ vpc = "call"
    /\ field_identifier \in FieldIdentifiers
    /\ stored \in StoredValues
    /\ field_value = NoneValue
    /\ execIdle
    /\ fillIdle
    /\ submitIdle
    /\ pageIdle
    /\ decideIdle
    /\ parseIdle
    /\ mapIdle
    /\ groupIdle
    /\ learnIdle
    /\ selectIdle
    /\ radioIdle
    /\ textIdle
    /\ chunkIdle
    /\ keyIdle
    /\ ddIdle
    /\ valIdle
    /\ fbIdle
    /\ semIdle

NextData ==
    \/ GetFieldValue
    \/ NextRead

SpecData == InitData /\ [][NextData]_vars
InitSelect ==
    /\ epc = "select"
    /\ hpc = "select"
    /\ dom_options \in DomOptionLists
    /\ select_target \in SelectTargets
    /\ select_name \in FieldNames
    /\ executor_selected = 0
    /\ handler_selected = 0
    /\ execIdle
    /\ fillIdle
    /\ submitIdle
    /\ pageIdle
    /\ decideIdle
    /\ parseIdle
    /\ mapIdle
    /\ groupIdle
    /\ learnIdle
    /\ dataIdle
    /\ radioIdle
    /\ textIdle
    /\ chunkIdle
    /\ keyIdle
    /\ ddIdle
    /\ valIdle
    /\ fbIdle
    /\ semIdle

NextSelect ==
    \/ ExecutorSelect
    \/ HandlerSelect

SpecSelect == InitSelect /\ [][NextSelect]_vars
InitRadio ==
    /\ rpc = "lookup"
    /\ radio_group \in YesNoGroups
    /\ radio_target \in RadioTargets
    /\ radio_i = 0
    /\ radio_checked = 0
    /\ radio_clicked = <<>>
    /\ radio_result = NoRadioResult
    /\ execIdle
    /\ fillIdle
    /\ submitIdle
    /\ pageIdle
    /\ decideIdle
    /\ parseIdle
    /\ mapIdle
    /\ groupIdle
    /\ learnIdle
    /\ dataIdle
    /\ selectIdle
    /\ textIdle
    /\ chunkIdle
    /\ keyIdle
    /\ ddIdle
    /\ valIdle
    /\ fbIdle
    /\ semIdle

NextRadio ==
    \/ RadioLookupRaises
    \/ RadioLookup
    \/ RadioIteration
    \/ RadioNotFound

SpecRadio == InitRadio /\ [][NextRadio]_vars
InitText ==
    /\ tpc = "attempt"
    /\ text_value \in TextValues
    /\ text_retry = 0
    /\ text_elem = NoneV
    /\ text_result = NewTextResult
    /\ text_log = <<>>
    /\ execIdle
    /\ fillIdle
    /\ submitIdle
    /\ pageIdle
    /\ decideIdle
    /\ parseIdle
    /\ mapIdle
    /\ groupIdle
    /\ learnIdle
    /\ dataIdle
    /\ selectIdle
    /\ radioIdle
    /\ chunkIdle
    /\ keyIdle
    /\ ddIdle
    /\ valIdle
    /\ fbIdle
    /\ semIdle

NextText ==
    \/ TextAttempt
    \/ TextBackoff

SpecText == InitText /\ [][NextText]_vars
InitChunk ==
    /\ cpc = "call"
    /\ \E n \in 0..MaxFields : form_fields = [k \in 1..n |-> k]
    /\ chunk_start = 0
    /\ sent_batches = <<>>
    /\ batch_mappings = <<>>
    /\ all_mappings = EmptyDict
    /\ execIdle
    /\ fillIdle
    /\ submitIdle
    /\ pageIdle
    /\ decideIdle
    /\ parseIdle
    /\ mapIdle
    /\ groupIdle
    /\ learnIdle
    /\ dataIdle
    /\ selectIdle
    /\ radioIdle
    /\ textIdle
    /\ keyIdle
    /\ ddIdle
    /\ valIdle
    /\ fbIdle
    /\ semIdle

NextChunk ==
    \/ AnalyzeAndMatchFields
    \/ AnalyzeChunk
    \/ ReturnAllMappings

SpecChunk == InitChunk /\ [][NextChunk]_vars
InitKey ==
    /\ kpc = "run"
    /\ field_info \in FieldInfos
    /\ field_keys = <<>>
    /\ execIdle
    /\ fillIdle
    /\ submitIdle
    /\ pageIdle
    /\ decideIdle
    /\ parseIdle
    /\ mapIdle
    /\ groupIdle
    /\ learnIdle
    /\ dataIdle
    /\ selectIdle
    /\ radioIdle
    /\ textIdle
    /\ chunkIdle
    /\ ddIdle
    /\ valIdle
    /\ fbIdle
    /\ semIdle

NextKey == GenerateFieldKey

SpecKey == InitKey /\ [][NextKey]_vars
InitDd ==
    /\ ddpc = "open"
    /\ dd_value \in ValueInputs
    /\ dd_open = FALSE
    /\ dd_clicked = FALSE
    /\ dd_escape = FALSE
    /\ dd_result = NewTextResult
    /\ execIdle
    /\ fillIdle
    /\ submitIdle
    /\ pageIdle
    /\ decideIdle
    /\ parseIdle
    /\ mapIdle
    /\ groupIdle
    /\ learnIdle
    /\ dataIdle
    /\ selectIdle
    /\ radioIdle
    /\ textIdle
    /\ chunkIdle
    /\ keyIdle
    /\ valIdle
    /\ fbIdle
    /\ semIdle

NextDd ==
    \/ DropdownOpenTrigger
    \/ DropdownFindOption
    \/ DropdownReadBack
    \/ DropdownPressEscape

SpecDd == InitDd /\ [][NextDd]_vars
InitVal ==
    /\ vfpc = "ready"
    /\ vselector = "#a"
    /\ listeners = [e \in PageElements |-> 0]
    /\ fieldChanged = FALSE
    /\ fieldBlurred = FALSE
    /\ stale_flag_seen = FALSE
    /\ validation_results = <<>>
    /\ execIdle
    /\ fillIdle
    /\ submitIdle
    /\ pageIdle
    /\ decideIdle
    /\ parseIdle
    /\ mapIdle
    /\ groupIdle
    /\ learnIdle
    /\ dataIdle
    /\ selectIdle
    /\ radioIdle
    /\ textIdle
    /\ chunkIdle
    /\ keyIdle
    /\ ddIdle
    /\ fbIdle
    /\ semIdle

NextVal ==
    \/ AttachAndDispatch
    \/ WaitForEvent
    \/ ReadAndRecord

SpecVal == InitVal /\ [][NextVal]_vars
InitFb ==
    /\ fbpc = "call"
    /\ fb_group \in FallbackGroups
    /\ fb_data \in FallbackProfiles
    /\ fb_actions = <<>>
    /\ execIdle
    /\ fillIdle
    /\ submitIdle
    /\ pageIdle
    /\ decideIdle
    /\ parseIdle
    /\ mapIdle
    /\ groupIdle
    /\ learnIdle
    /\ dataIdle
    /\ selectIdle
    /\ radioIdle
    /\ textIdle
    /\ chunkIdle
    /\ keyIdle
    /\ ddIdle
    /\ valIdle
    /\ semIdle

NextFb == RunFallbackAnalysis

SpecFb == InitFb /\ [][NextFb]_vars
InitSem ==
    /\ sem_calls = 0
    /\ sem_mappings = EmptyMappings
    /\ sem_history = <<>>
    /\ sem_file = EmptyKnowledgeBase
    /\ sem_raised = FALSE
    /\ execIdle
    /\ fillIdle
    /\ submitIdle
    /\ pageIdle
    /\ decideIdle
    /\ parseIdle
    /\ mapIdle
    /\ groupIdle
    /\ learnIdle
    /\ dataIdle
    /\ selectIdle
    /\ radioIdle
    /\ textIdle
    /\ chunkIdle
    /\ keyIdle
    /\ ddIdle
    /\ valIdle
    /\ fbIdle

NextSem ==
    \E field \in LearnFields, user_value \in UserValues, semantic_analysis \in SemanticAnalyses :
        LearnWithAnalysis(field, user_value, semantic_analysis)

SpecSem == InitSem /\ [][NextSem]_vars

-----------------------------------------------------------------------------
(* The claims.                                                              *)

\* C1: execute_action returns a result record for every action record and never
\* raises, also when the record lacks one of selector/control/value.
C1_ExecuteActionNeverRaises ==
    /\ pc # "raised"
    /\ pc = "done" => result.success \in BOOLEAN

Norm(s) == Strip(Lower(s))

\* C2: a success on a text, textarea, select or date control carries an
\* actual_value that was read back from the element after the fill and equals
\* the expected value modulo normalization.
C2_SuccessMeansReadBackEqualsExpected ==
    (/\ pc = "done"
     /\ result.success
     /\ ControlLower(result.control) \in {"text", "textarea", "select", "date"})
    => /\ readBack
       /\ Norm(result.actual_value) = Norm(elemValue)
       /\ Norm(result.actual_value) = Norm(result.expected_value)

\* the mapper's order: group order, then the order within the group
MapperOrder(a, b) == a[1] < b[1] \/ (a[1] = b[1] /\ a[2] < b[2])

\* C3: fill_form executes every mapped action exactly once, in the mapper's order
\* (group order, then order within the group), one action in flight at a time.
C3_ActionsExecutedOnceInOrder ==
    /\ inFlight \in {0, 1}
    /\ Len(execLog) <= Len(all_actions)
    /\ execLog = SubSeq(all_actions, 1, Len(execLog))
    /\ \A i, k \in 1..Len(all_actions) : i < k => MapperOrder(all_actions[i], all_actions[k])
    /\ fpc = "await" => inFlight = 1 /\ Len(execLog) = actIdx
    /\ fpc = "exec" => inFlight = 0 /\ Len(execLog) = actIdx - 1
    /\ fpc = "returned" => inFlight = 0 /\ execLog = all_actions

C3_Witness ==
    /\ fpc = "returned"
    /\ Len(execLog) >= 3
    /\ \E i, k \in 1..Len(execLog) : execLog[i][1] # execLog[k][1]

C5_SubmitOnlyWhenEnabled ==
    /\ submitClicks > 0 => submit
    /\ (~submit /\ located) => submitClicks = 0

C5_Witness ==
    /\ spc = "done"
    /\ flow = "rippling"
    /\ ~submit
    /\ located
    /\ submitClicks = 0

\* C6: every analysis analyze_page_content returns has page_type and action_type
\* inside their enums, every confidence (page, each CTA, recommended action) in
\* [0,1], form_count > 0 when page_type is form_page or job_detail_with_form, and
\* a CTA candidate when has_apply_button is set.
C6_ReturnedAnalysisIsConsistent ==
    apc = "returned" =>
        /\ analysis.page_type \in PageTypes
        /\ analysis.recommended_action.action_type \in ActionTypes
        /\ ConfidenceInRange(analysis.confidence)
        /\ \A i \in 1..Len(analysis.cta_candidates) :
              ConfidenceInRange(analysis.cta_candidates[i].confidence)
        /\ ConfidenceInRange(analysis.recommended_action.confidence)
        /\ analysis.page_type \in {"form_page", "job_detail_with_form"}
              => analysis.form_count > 0
        /\ analysis.has_apply_button => analysis.cta_candidates # <<>>

\* a response whose CTA confidence 5.0 failed the validation, was repaired to 0.5
\* and was returned as a form page with an apply button
C6_Witness ==
    /\ apc = "returned"
    /\ raw_response.cta_candidates.t = "list"
    /\ Len(raw_response.cta_candidates.items) > 0
    /\ raw_response.cta_candidates.items[1].confidence = 500
    /\ Len(analysis.cta_candidates) > 0
    /\ analysis.cta_candidates[1].confidence = 50
    /\ analysis.has_apply_button
    /\ analysis.page_type = "form_page"
    /\ analysis.form_count = 2

\* C7: every analysis analyze_page_content returns recommends fill_form only with
\* form_count > 0, and click_cta only with a target_element that is neither null
\* nor blank.
C7_ActionMatchesPage ==
    apc = "returned" =>
        /\ analysis.recommended_action.action_type = "fill_form"
              => analysis.form_count > 0
        /\ analysis.recommended_action.action_type = "click_cta"
              => /\ analysis.recommended_action.target_element # NoneV
                 /\ Strip(analysis.recommended_action.target_element) # <<>>

\* C8: should_proceed_with_action returns true only when the action's confidence
\* reaches min_confidence, the page shape supports the action (fill_form: a form
\* on a form_page or job_detail_with_form; click_cta: a job_detail or
\* job_detail_with_form with a CTA candidate of confidence >= min_confidence);
\* never for login_required, wait_for_human or no_action, never click_cta on a
\* form_page.
C8_ProceedOnlyWhenSupported ==
    (dpc = "done" /\ proceed) =>
        /\ recommended_action.confidence >= min_confidence
        /\ recommended_action.action_type \in {"fill_form", "click_cta"}
        /\ recommended_action.action_type = "fill_form"
              => /\ analysis_result.form_count > 0
                 /\ analysis_result.page_type \in {"form_page", "job_detail_with_form"}
        /\ recommended_action.action_type = "click_cta"
              => /\ analysis_result.page_type \in {"job_detail", "job_detail_with_form"}
                 /\ \E i \in 1..Len(analysis_result.cta_candidates) :
                       analysis_result.cta_candidates[i].confidence >= min_confidence
        /\ ~(/\ recommended_action.action_type = "click_cta"
             /\ analysis_result.page_type = "form_page")

\* a click_cta approved on two candidates of which the response listed the
\* weaker one first
C8_Witness ==
    /\ dpc = "done"
    /\ proceed
    /\ recommended_action.action_type = "click_cta"
    /\ Len(gpt_response.cta_candidates) = 2
    /\ gpt_response.cta_candidates[1].confidence < min_confidence

\* C9: for a response that says job_detail with form_count > 0, the returned
\* analysis is a job_detail_with_form or recommends wait_for_human; it is never a
\* job_detail with form_count > 0 and a click_cta recommendation.
C9_JobDetailWithFormsIsRepaired ==
    (/\ apc = "returned"
     /\ raw_response.page_type = "job_detail"
     /\ raw_response.form_count.t = "int"
     /\ raw_response.form_count.n > 0)
    => /\ \/ analysis.page_type = "job_detail_with_form"
          \/ analysis.recommended_action.action_type = "wait_for_human"
       /\ ~(/\ analysis.page_type = "job_detail"
            /\ analysis.form_count > 0
            /\ analysis.recommended_action.action_type = "click_cta")

\* C10: for a reply that is valid JSON but for code fences and trailing commas,
\* _make_request returns the object the reply spells, every string value
\* unchanged; for a reply no JSON object can be recovered from it returns the
\* default analysis (unknown, confidence 0, no forms, no CTAs, wait_for_human).
C10_ParseRepairKeepsTheObject ==
    ppc = "returned" =>
        /\ intended.kind = "object" => parsed = intended
        /\ intended = NoObject
              => /\ parsed = DefaultParsed
                 /\ _get_default_error_response.page_type = "unknown"
                 /\ _get_default_error_response.confidence.n = 0
                 /\ _get_default_error_response.form_count.n = 0
                 /\ _get_default_error_response.cta_candidates.items = <<>>
                 /\ _get_default_error_response.recommended_action.action_type
                       = "wait_for_human"

\* C11: every action the field mapper returns has a non-empty string selector,
\* a control of the closed set, a confidence in [0, 1] and, for a file control,
\* a non-empty path string as value.
C11_MappedActionsAreWellFormed ==
    mpc = "returned" =>
        \A i \in 1..Len(mapped) :
            /\ mapped[i].selector.t = "str" /\ mapped[i].selector.s # <<>>
            /\ mapped[i].control \in valid_controls
            /\ mapped[i].confidence.t = "int"
            /\ mapped[i].confidence.n >= 0 /\ mapped[i].confidence.n <= 100
            /\ mapped[i].control = "file" =>
                   (mapped[i].value.t = "str" /\ mapped[i].value.s # <<>>)

\* C12: when the LLM call raises or answers with an object that holds no
\* actions, the field mapper returns the actions of the rule-based fallback.
C12_FallbackWhenNoActionArray ==
    (mpc = "returned" /\ llm.kind \in {"raise", "object"}) =>
        mapped = _fallback_analysis(group, personal_data)

\* the result groups made of the elements of the logical group `name`
GroupsOf(name) ==
    {k \in 1..Len(grouped) :
        \E j \in 1..Len(grouped[k].elements) :
            LogicalGroup(elements[grouped[k].elements[j]]) = name}

CountOf(name) == Cardinality({i \in 1..Len(elements) : LogicalGroup(elements[i]) = name})

\* C13: the groups returned hold every element exactly once, keep the input
\* order inside a group and hold at most max_group_size elements; a logical
\* group of exactly max_group_size elements gives one group, one of
\* max_group_size + 1 gives the two groups <name>_part1 and <name>_part2.
C13_GroupsPartitionInOrderUnderCap ==
    gpc = "returned" =>
        /\ \A i \in 1..Len(elements) :
              Cardinality({<<k, j>> \in (1..Len(grouped)) \X (1..Len(elements)) :
                              /\ j <= Len(grouped[k].elements)
                              /\ grouped[k].elements[j] = i}) = 1
        /\ \A k \in 1..Len(grouped) :
              /\ Len(grouped[k].elements) <= max_group_size
              /\ \A j \in 1..(Len(grouped[k].elements) - 1) :
                    grouped[k].elements[j] < grouped[k].elements[j + 1]
        /\ \A e \in LogicalGroups :
              LET name == LogicalGroup(e)
              IN  /\ CountOf(name) = max_group_size =>
                        /\ Cardinality(GroupsOf(name)) = 1
                        /\ \A k \in GroupsOf(name) : grouped[k].groupName = name
                  /\ CountOf(name) = max_group_size + 1 =>
                        \E k \in 1..(Len(grouped) - 1) :
                            /\ GroupsOf(name) = {k, k + 1}
                            /\ grouped[k].groupName = name \o part_s \o <<"1">>
                            /\ grouped[k + 1].groupName = name \o part_s \o <<"2">>

\* a group of cap + 1 elements was cut in two while another of exactly the cap
\* elements stayed whole
C13_Witness ==
    /\ gpc = "returned"
    /\ max_group_size = 2
    /\ CountOf(<<"a">>) = 3
    /\ CountOf(<<"b">>) = 2
    /\ Len(grouped) = 3

\* the confidence of a mapping is min(0.95, 0.5 + 0.1 n + 0.3 consistency)
ConfidenceAsSpecified(m) ==
    LET n == Len(m.examples)
        unique == Cardinality({m.examples[i].value : i \in 1..n})
        \* hundredths, times n: 50 + 10 n + 30 (1 - (unique - 1) / n)
        times_n == (80 + 10 * n) * n - 30 * (unique - 1)
    IN  IF n > 1
        THEN IF times_n >= 95 * n THEN m.confidence = 95 ELSE m.confidence * n = times_n
        ELSE m.confidence = 75      \* 0.5 + 0.1 + 0.3 * 0.5

SameValues(examples) == \A i, j \in 1..Len(examples) : examples[i].value = examples[j].value

\* C14: after every record the entry's confidence is
\* min(0.95, 0.5 + 0.1 n + 0.3 consistency), it never exceeds 0.95, and a record
\* of the value the entry already holds never lowers it.
C14_ConfidenceFormulaCapAndMonotone ==
    /\ [](\A s \in Sessions, k \in FieldKeys :
             knowledge_base[s][k].present =>
                 /\ ConfidenceAsSpecified(knowledge_base[s][k])
                 /\ knowledge_base[s][k].confidence <= 95)
    /\ [][\A s \in Sessions, k \in FieldKeys :
             (/\ knowledge_base[s][k].present
              /\ Len(knowledge_base[s][k].examples') = Len(knowledge_base[s][k].examples) + 1
              /\ SameValues(knowledge_base[s][k].examples'))
                 => knowledge_base[s][k].confidence' >= knowledge_base[s][k].confidence]_vars

\* one value recorded three times for a key
C14_Witness ==
    \E s \in Sessions, k \in FieldKeys :
        /\ Len(knowledge_base[s][k].examples) = 3
        /\ SameValues(knowledge_base[s][k].examples)
        /\ knowledge_base[s][k].confidence = 95

\* C15: the knowledge base loaded from the exported document holds every field
\* mapping of the exporting store, with the same confidence.
C15_ExportImportKeepsMappings ==
    imported.done =>
        \A k \in FieldKeys :
            knowledge_base[export_data.by][k].present =>
                /\ imported.has_field_mappings
                /\ imported.field_mappings[k].present
                /\ imported.field_mappings[k].confidence =
                       knowledge_base[export_data.by][k].confidence

\* C16: the knowledge-base file holds every example any session recorded, and
\* writing into a mapping that a lookup handed out leaves the store unchanged.
C16_NoLostUpdateAndCopyOnRead ==
    /\ [](\A r \in recorded :
             /\ kb_file[r.key].present
             /\ \E i \in 1..Len(kb_file[r.key].examples) :
                    kb_file[r.key].examples[i] = r.example)
    /\ [][(\E s \in Sessions : MutateHandedMapping(s))
             => knowledge_base' = knowledge_base]_vars

\* C17: a snapshot without groups ends fill_form with 0 total fields and no
\* error recorded.
C17_EmptyFormEndsWithoutError ==
    (fpc \in {"done", "returned"} /\ element_groups = 0) =>
        (fresult.total_fields = 0 /\ fresult.errors = 0)

phone_id == <<"P", "h", "o", "n", "e">>
salary_id ==
    <<"S", "a", "l", "a", "r", "y", " ", "E", "x", "p", "e", "c", "t", "a", "t", "i", "o", "n">>

\* digits in groups of three counted from the right, a comma between the groups
GroupedByThousands(s) ==
    \A i \in 1..Len(s) :
        IF (Len(s) - i) % 4 = 3 THEN s[i] = "," ELSE IsDigit(s[i])

PhoneRead ==
    (field_identifier = phone_id /\ stored.t = "str" /\ Len(Digits(stored.s)) = 10) =>
        /\ field_value.t = "str"
        /\ Len(field_value.s) = 14
        /\ field_value.s[1] = "(" /\ field_value.s[5] = ")" /\ field_value.s[6] = " " /\ field_value.s[10] = "-"
        /\ Digits(field_value.s) = Digits(stored.s)

SalaryRead ==
    (field_identifier = salary_id /\ stored.t = "str" /\ Digits(stored.s) # <<>>) =>
        /\ field_value.t = "str"
        /\ GroupedByThousands(field_value.s)
        /\ Digits(field_value.s) = StripZeros(Digits(stored.s))

BooleanRead ==
    (/\ field_identifier \in FieldIdentifiers \ {phone_id, salary_id, <<"p", "r", "o", "n", "o", "u", "n", "s">>}
     /\ \/ stored.t = "bool"
        \/ stored.t = "str" /\ stored.s \in yes_words \cup no_words) =>
        field_value = IF stored.s \in yes_words \cup {<<"T", "r", "u", "e">>}
                THEN Str(<<"Y", "e", "s">>)
                ELSE Str(<<"N", "o">>)

\* C18: read through get_field_value, a phone of exactly 10 digits comes back as
\* (NXX) NXX-XXXX, a salary as its digits grouped by thousands, and a boolean
\* field stored as a YAML boolean or as yes/no in any letter case as Yes or No.
C18_NormalizedOnRead ==
    vpc = "returned" => (PhoneRead /\ SalaryRead /\ BooleanRead)

\* C19: on a native country select whose options are an empty placeholder and
\* country names that include United States, in any order, the value US is
\* resolved to the option United States, and the matcher never returns the
\* empty placeholder while another option exists.
IsPlaceholder(o) == o.value = <<>> /\ o.text = <<>>

ResolvesCountry(pos) ==
    /\ pos # 0
    /\ dom_options[pos].text = United_States
    /\ ~IsPlaceholder(dom_options[pos])

OffersUnitedStates ==
    \E k \in 1..Len(dom_options) : dom_options[k].text = United_States

C19_CountryValueResolvesToItsOption ==
    (select_target = US_s /\ OffersUnitedStates)
       => /\ epc = "done" => ResolvesCountry(executor_selected)
          /\ (hpc = "done" /\ select_name = country_s)
                => ResolvesCountry(handler_selected)

\* C20: in a yes/no radio group, in either DOM order and whatever the labels,
\* an action whose value is of the Yes class never clicks or checks a radio
\* whose value is of the No class and, when it succeeds, leaves a Yes-class
\* radio checked; the same holds with the classes exchanged.  The radio
\* clicked is the group's best match: the one whose value is of the target's
\* class, not the first radio that happens to match.
ClassOf(s) ==
    IF Strip(Lower(s)) \in yes_class THEN "yes"
    ELSE IF Strip(Lower(s)) \in no_class THEN "no" ELSE "other"

RadioClass(i) == ClassOf(radio_group[i].value)

C20_RadioOfTheTargetClassIsChecked ==
    ClassOf(radio_target) \in {"yes", "no"}
       => /\ \A k \in 1..Len(radio_clicked) :
                RadioClass(radio_clicked[k]) = ClassOf(radio_target)
          /\ radio_checked # 0 => RadioClass(radio_checked) = ClassOf(radio_target)
          /\ radio_result.success => radio_checked # 0

\* C21: _fill_text makes at most three fill attempts and then returns; after
\* three attempts that each ended in a mismatch or an exception it returns
\* success = false; and a backoff wait separates every two consecutive
\* attempts, whether the earlier one failed by mismatch or by exception.
IsAttempt(e) == e \in {"match", "mismatch", "exception"}

AttemptsMade == Cardinality({k \in 1..Len(text_log) : IsAttempt(text_log[k])})

FailedAttempts ==
    Cardinality({k \in 1..Len(text_log) : text_log[k] \in {"mismatch", "exception"}})

WaitBetweenAttempts ==
    \A i, j \in 1..Len(text_log) :
       (i < j /\ IsAttempt(text_log[i]) /\ IsAttempt(text_log[j]))
          => \E w \in (i + 1)..(j - 1) : text_log[w] = "wait"

C21_ThreeAttemptsWithBackoff ==
    /\ AttemptsMade <= 3
    /\ (tpc = "returned" /\ FailedAttempts = 3) => ~text_result.success
    /\ WaitBetweenAttempts

\* C29: for every result _fill_text returns, success = true implies that error
\* is None, and retries is the number of failed attempts made before the
\* attempt that returned, also when an earlier attempt raised and a later one
\* succeeded.  (For a run whose last attempt failed too, either count of the
\* last attempt is accepted.)
C29_ResultCountsFailedAttempts ==
    tpc = "returned"
       => /\ text_result.success
                => /\ text_result.error = None
                   /\ text_result.retries = FailedAttempts
          /\ ~text_result.success
                => text_result.retries \in {FailedAttempts, FailedAttempts - 1}

\* C22: a form of at most 30 fields is sent as one batch; a larger form is
\* split into consecutive batches of 20, each field in exactly one batch and in
\* order; and when two batches map the same selector the merged result keeps
\* the mapping of the earlier batch.
RECURSIVE Flatten(_)
Flatten(seqs) == IF seqs = <<>> THEN <<>> ELSE Head(seqs) \o Flatten(Tail(seqs))

OneBatchUpToThirty ==
    (cpc = "returned" /\ Len(form_fields) <= 30) => sent_batches = <<form_fields>>

BatchesOfTwenty ==
    (cpc = "returned" /\ Len(form_fields) > 30)
       => /\ Flatten(sent_batches) = form_fields
          /\ \A k \in 1..Len(sent_batches) :
                /\ Len(sent_batches[k]) >= 1
                /\ Len(sent_batches[k]) <= 20
                /\ k < Len(sent_batches) => Len(sent_batches[k]) = 20

FirstBatchWins ==
    cpc = "returned"
       => \A s \in MappedSelectors :
             LET having == {k \in 1..Len(batch_mappings) : s \in DOMAIN batch_mappings[k]}
             IN  IF having = {} THEN s \notin DOMAIN all_mappings
                 ELSE /\ s \in DOMAIN all_mappings
                      /\ all_mappings[s] = batch_mappings[Min(having)][s]

C22_BatchesAndFirstWinsMerge ==
    /\ OneBatchUpToThirty
    /\ BatchesOfTwenty
    /\ FirstBatchWins

\* C23: for every field the learning-store key is non-empty, matches
\* [a-z0-9_]+, and is stable: the same field features yield the same key on
\* every run, also when the key falls back to the pattern tokens.
KeyWellFormed(key) ==
    /\ key # <<>>
    /\ \A i \in 1..Len(key) : IsWordChar(key[i])

C23_FieldKeyNonEmptyNormalizedStable ==
    /\ \A r \in 1..Len(field_keys) : KeyWellFormed(field_keys[r])
    /\ \A r, q \in 1..Len(field_keys) : field_keys[r] = field_keys[q]

\* C24: whenever a custom-dropdown action has clicked its trigger open and the
\* execution ends in failure, because no option matched or because a step
\* after the click raised, Escape is pressed before the result is returned and
\* the dropdown is not left open for the next action.
C24_EscapeAfterFailedDropdown ==
    (ddpc = "returned" /\ dd_clicked /\ ~dd_result.success)
       => /\ dd_escape
          /\ ~dd_open

\* C25: the repair pass treats every confidence alike: an out-of-range
\* confidence in [1, 10] is divided by 10, for the page-level confidence, for
\* each CTA candidate and for the recommended action, and only the values
\* outside that range are replaced by 0.  (Confidences are in hundredths.)
RepairedConfidence(c) ==
    IF ConfidenceInRange(c) THEN c
    ELSE IF c >= 100 /\ c <= 1000 THEN c \div 10
    ELSE 0

RECURSIVE DictItems(_)
DictItems(items) ==
    IF items = <<>> THEN <<>>
    ELSE (IF Head(items).is_dict THEN <<Head(items)>> ELSE <<>>) \o DictItems(Tail(items))

CtaConfidencesRepaired ==
    raw_response.cta_candidates.t = "list"
       => LET before == DictItems(raw_response.cta_candidates.items)
              after == fixed_response.cta_candidates.items
          IN  /\ Len(after) = Len(before)
              /\ \A k \in 1..Len(after) :
                    after[k].confidence = RepairedConfidence(before[k].confidence)

PageConfidenceRepaired ==
    raw_response.confidence.t = "int"
       => fixed_response.confidence.n = RepairedConfidence(raw_response.confidence.n)

ActionConfidenceRepaired ==
    (raw_response.recommended_action.t = "dict"
        /\ raw_response.recommended_action.confidence.t = "int")
       => fixed_response.recommended_action.confidence.n
             = RepairedConfidence(raw_response.recommended_action.confidence.n)

C25_EveryConfidenceRepairedAlike ==
    apc = "revalidate"
       => /\ PageConfidenceRepaired
          /\ CtaConfidencesRepaired
          /\ ActionConfidenceRepaired

\* C26: after validate_field returns, with a valid result, an invalid result,
\* a timeout or an error, the change and blur listeners it attached are
\* removed and the page-level event flags are reset: listeners do not
\* accumulate, and a later validation never observes a flag raised for an
\* earlier field.
C26_ListenersAndFlagsTornDown ==
    /\ vfpc = "ready"
          => /\ \A e \in PageElements : listeners[e] = 0
             /\ ~fieldChanged
             /\ ~fieldBlurred
    /\ ~stale_flag_seen

\* C27: in the rule-based fallback a keyword row matches only when all its
\* '+'-joined keywords occur in the element's text, and the first row that hits
\* wins: an element whose text holds last and name but not first yields an
\* action with semantic last_name carrying the profile's last name at
\* confidence 0.7, never first_name; and for a profile holding first name, last
\* name, email and phone the fallback emits an action for each such field.
HasWord(element, kw) == Contains(kw, combined_text(element))

\* the semantic the keyword table of the spec gives the element
SemanticOf(element) ==
    IF HasWord(element, first_kw) /\ HasWord(element, name_kw) THEN "first_name"
    ELSE IF HasWord(element, last_kw) /\ HasWord(element, name_kw) THEN "last_name"
    ELSE IF HasWord(element, email_kw) THEN "email"
    ELSE IF HasWord(element, phone_kw) THEN "phone"
    ELSE "none"

ActionsFor(element) ==
    {k \in 1..Len(fb_actions) : fb_actions[k].selector.s = FallbackSelector(element)}

LastNameElementGetsLastName ==
    \A i \in 1..Len(fb_group) :
       (SemanticOf(fb_group[i]) = "last_name" /\ fb_data.last_name # <<>>)
          => /\ \E k \in ActionsFor(fb_group[i]) :
                   /\ fb_actions[k].semantic = "last_name"
                   /\ fb_actions[k].value.s = fb_data.last_name
                   /\ fb_actions[k].confidence.n = 70
             /\ \A k \in ActionsFor(fb_group[i]) : fb_actions[k].semantic # "first_name"

FullProfile ==
    /\ fb_data.first_name # <<>>
    /\ fb_data.last_name # <<>>
    /\ fb_data.email # <<>>
    /\ fb_data.phone # <<>>

EveryContactFieldGetsItsAction ==
    FullProfile
       => \A i \in 1..Len(fb_group) :
             SemanticOf(fb_group[i]) # "none"
                => \E k \in ActionsFor(fb_group[i]) :
                      fb_actions[k].semantic = SemanticOf(fb_group[i])

C27_FallbackRowsMatchAllKeywords ==
    fbpc = "returned"
       => /\ LastNameElementGetsLastName
          /\ EveryContactFieldGetsItsAction

\* C28: from an empty knowledge base, every entry of field_mappings has at
\* least one example and a confidence in [0.75, 0.95]; hence a lookup of a
\* recorded field returns that field's own entry: the 0.6 threshold of the
\* exact match never rejects a recorded key.
C28_RecordedEntryIsFoundByItsKey ==
    /\ [](\A s \in Sessions, k \in FieldKeys :
             knowledge_base[s][k].present =>
                 /\ Len(knowledge_base[s][k].examples) >= 1
                 /\ knowledge_base[s][k].confidence >= 75
                 /\ knowledge_base[s][k].confidence <= 95)
    /\ [][\A s \in Sessions, field \in LearnFields :
             (GetLearnedMapping(s, field) /\ knowledge_base[s][field.key].present)
                 => handed'[s] = field.key]_vars

\* a lookup returned an entry recorded once, at the lowest confidence
C28_Witness ==
    \E s \in Sessions :
        /\ handed[s] # None
        /\ knowledge_base[s][handed[s]].present
        /\ Len(knowledge_base[s][handed[s]].examples) = 1
        /\ knowledge_base[s][handed[s]].confidence = 75

\* C30: a learn_field_mapping call that raises leaves the in-memory knowledge
\* base (field_mappings and learning_history) and the persisted file exactly as
\* they were before the call, for a new key and for an existing one.
C30_RaisingLearnChangesNothing ==
    [][(sem_calls' = sem_calls + 1 /\ sem_raised')
          => UNCHANGED <<sem_mappings, sem_history, sem_file>>]_vars

====
